---- MODULE Spec2Model ----
(***************************************************************************)
(* Verification model of prequ (requirement compiler and environment       *)
(* sync): the environment-sync differ (sync.py), the persistent            *)
(* dependency cache (cache.py), the local-override repository              *)
(* (repositories/local.py) and the compile driver (scripts/compile_in.py). *)
(* Each component has its own specification over the shared variables.     *)
(***************************************************************************)
EXTENDS Integers, Sequences, FiniteSets, TLC

VARIABLES
    \* sync.diff
    installed_dists,        \* set of installed distributions
    compiled_requirements,  \* set of desired requirements (merge() output)
    to_install,             \* diff() result, set of requirements
    to_uninstall,           \* diff() result, set of dist keys
    diff_pc,                \* "start" | "done"
    \* cache.DependencyCache
    file_exists,            \* os.path.exists(self._cache_file)
    file_content,           \* the bytes of the cache file, as a sequence of tokens
    cache_loaded,           \* self._cache is not None
    cache_map,              \* self._cache: name -> (version+extras key -> deps)
    cache_pc,               \* "idle" | "writing" (inside write_cache) | "crashed"
    write_doc,              \* the serialized document write_cache is dumping
    write_pos,              \* how many tokens json.dump has handed to the file object
    cache_error,            \* the exception the last operation raised, or "none"
    error_path,             \* the path the raised exception carries, or <<>>
    last_op,                \* the last operation of the cache that ran
    read_content,           \* the file contents the last read_cache_file was given
    old_content,            \* the file contents before the write in progress began
    set_log,                \* the requirements set so far, with their dependencies
    log_valid,              \* set_log is the whole history of the file since empty
    cache_ops,              \* the number of operations run on the cache
    \* repositories: PyPIRepository and LocalRequirementsRepository
    index,                  \* the package index: key -> (version -> its requirements)
    existing_pins,          \* LocalRequirementsRepository.existing_pins: key -> pin
    proxied_calls,          \* find_best_match calls made on the proxied repository
    best_match_ireq,        \* the argument of the last find_best_match
    best_match_result,      \* what the last find_best_match returned or raised
    proxied_before,         \* proxied_calls when the last find_best_match began
    local_ops,              \* the number of find_best_match calls made
    \* scripts/compile_in.py: cli
    cli_pc,                 \* the statement of cli that runs next
    cli_options,            \* --max-rounds, --upgrade, --generate-hashes
    src_constraints,        \* the requirements parsed from the source files
    dst_file,               \* the output file of the previous compile, if any
    constraints,            \* the constraints list of cli
    repository,             \* the class of the repository cli hands to the Resolver
    their_constraints,      \* Resolver: the dependency requirements found so far
    closure,                \* Resolver: key -> pinned version
    prev_closure,           \* the closure before the last round
    current_round,          \* resolve: the round counter
    max_rounds,             \* resolve: its max_rounds argument
    rounds_run,             \* the number of rounds resolve has run
    dependency_cache,       \* the <<key, version>> whose dependencies are fetched
    repository_calls,       \* calls made on the repository, by capability
    cli_error,              \* the error cli failed with, or "none"
    \* sync.merge
    requirements,           \* the stream of requirements merge is given
    ignore_conflicts,       \* its ignore_conflicts argument
    by_key,                 \* merge: key -> the requirement kept for it
    merge_pos,              \* the entry of the stream the for loop is at
    merge_pc,               \* "loop" | "returned" | "raised"
    merge_error,            \* the exception merge raised, with what it carries
    merge_result,           \* by_key.values(), once merge has returned
    \* sync.dependency_tree
    tree_installed,         \* the installed distributions
    tree_root,              \* root_key
    tree_queue,             \* queue
    tree_dependencies,      \* dependencies
    tree_expanded,          \* how often the for loop over v.requires() ran, by key
    tree_pc,                \* "loop" | "returned"
    \* PyPIRepository as an object with its candidates memo
    available_candidates_cache, \* self._available_candidates_cache: name -> candidates
    finder_queries,         \* how often the finder was asked for candidates, by name
    finder_asked,           \* the names the finder was asked for by the last call
    pypi_call,              \* the last call made on the repository: method and argument
    pypi_result,            \* what the last call returned or raised
    pypi_ops,               \* the number of calls made on the repository
    \* DependencyCache in use by one resolve: set, get, reverse_dependencies
    dc_call,                \* the last call made on the cache, method and arguments
    dc_result,              \* what the last call returned or raised
    dc_log,                 \* the last set of each requirement, by its identity
    dc_before,              \* the cache contents and the file before the last call
    dc_ops,                 \* the number of calls made on the cache
    \* LocalRequirementsRepository.get_hashes
    pin_hashes,             \* the --hash options of the existing pins, by key
    lh_call,                \* the argument of the last get_hashes
    lh_result,              \* what the last get_hashes returned or raised
    lh_ops,                 \* the number of get_hashes calls made
    \* file_replacer.py: one FileReplacer
    fr_pc,                  \* constructed | entered | exited | raised
    fr_dest,                \* the file at dest_path
    fr_dest_before,         \* the file at dest_path when the FileReplacer was constructed
    fr_tmp,                 \* the temporary file
    fr_tmpfile,             \* self.tmpfile is set
    fr_exit,                \* how the context was left
    fr_after,               \* dest_path and the temporary file as __exit__ left them
    fr_closes,              \* the number of close calls made after the context
    \* repositories/pypi.py: the dependencies memo of one PyPIRepository
    dependencies_cache,     \* self._dependencies_cache, from the url of a link to the dependencies
    fetch_count,            \* how many times each url was fetched and prepared
    gd_call,                \* the requirement of the last _get_dependencies
    gd_result,              \* what the last _get_dependencies returned
    gd_ops                  \* the number of _get_dependencies calls made

diffVars == <<installed_dists, compiled_requirements, to_install, to_uninstall, diff_pc>>

cacheVars ==
    <<file_exists, file_content, cache_loaded, cache_map, cache_pc, write_doc,
      write_pos, cache_error, error_path, last_op, read_content, old_content, set_log,
      log_valid, cache_ops>>

repoVars ==
    <<index, existing_pins, proxied_calls, best_match_ireq, best_match_result,
      proxied_before, local_ops>>

cliVars ==
    <<cli_pc, cli_options, src_constraints, dst_file, constraints, repository,
      their_constraints, closure, prev_closure, current_round, max_rounds, rounds_run,
      dependency_cache, repository_calls, cli_error>>

mergeVars ==
    <<requirements, ignore_conflicts, by_key, merge_pos, merge_pc, merge_error,
      merge_result>>

treeVars ==
    <<tree_installed, tree_root, tree_queue, tree_dependencies, tree_expanded, tree_pc>>

pypiVars ==
    <<available_candidates_cache, finder_queries, finder_asked, pypi_call, pypi_result,
      pypi_ops>>

dcVars == <<dc_call, dc_result, dc_log, dc_before, dc_ops>>

lhVars == <<pin_hashes, lh_call, lh_result, lh_ops>>

frVars == <<fr_pc, fr_dest, fr_dest_before, fr_tmp, fr_tmpfile, fr_exit, fr_after, fr_closes>>

gdVars == <<dependencies_cache, fetch_count, gd_call, gd_result, gd_ops>>

vars ==
    <<diffVars, cacheVars, repoVars, cliVars, mergeVars, treeVars, pypiVars,
      dcVars, lhVars, frVars, gdVars>>

\* what an operation of one component leaves alone
notDiffVars == <<cacheVars, repoVars, cliVars, mergeVars, treeVars, pypiVars, dcVars, lhVars, frVars, gdVars>>

notCacheVars == <<diffVars, repoVars, cliVars, mergeVars, treeVars, pypiVars, dcVars, lhVars, frVars, gdVars>>

notRepoVars == <<diffVars, cacheVars, cliVars, mergeVars, treeVars, pypiVars, dcVars, lhVars, frVars, gdVars>>

notCliVars == <<diffVars, cacheVars, mergeVars, treeVars, pypiVars, dcVars, lhVars, frVars, gdVars>>

notMergeVars == <<diffVars, cacheVars, repoVars, cliVars, treeVars, pypiVars, dcVars, lhVars, frVars, gdVars>>

notTreeVars == <<diffVars, cacheVars, repoVars, cliVars, mergeVars, pypiVars, dcVars, lhVars, frVars, gdVars>>

notPypiVars == <<diffVars, cacheVars, repoVars, cliVars, mergeVars, treeVars, dcVars, lhVars, frVars, gdVars>>

notDcVars ==
    <<diffVars, repoVars, cliVars, mergeVars, treeVars, pypiVars, lhVars, frVars, gdVars>>

notLhVars == <<diffVars, cacheVars, repoVars, cliVars, mergeVars, treeVars, pypiVars, dcVars, frVars, gdVars>>

notFrVars == <<diffVars, cacheVars, repoVars, cliVars, mergeVars, treeVars, pypiVars, dcVars, lhVars, gdVars>>

notGdVars == <<diffVars, cacheVars, repoVars, cliVars, mergeVars, treeVars, pypiVars, dcVars, lhVars, frVars>>

(***************************************************************************)
(* Names.  A name is a sequence of one-character strings, so that          *)
(* normalize_req_name can be modelled by what it does.                     *)
(***************************************************************************)
Separators == {"-", "_", "."}

Lower(c) ==
    CASE c = "A" -> "a"
      [] c = "B" -> "b"
      [] c = "C" -> "c"
      [] c = "I" -> "i"
      [] c = "Z" -> "z"
      [] OTHER -> c

RECURSIVE DropSeparators(_)
DropSeparators(s) ==
    IF s # <<>> /\ Head(s) \in Separators THEN DropSeparators(Tail(s)) ELSE s

\* re.compile(r'[-_.]+').sub('-', name).lower()
RECURSIVE normalize_req_name(_)
normalize_req_name(name) ==
    IF name = <<>> THEN <<>>
    ELSE IF Head(name) \in Separators
         THEN <<"-">> \o normalize_req_name(DropSeparators(Tail(name)))
         ELSE <<Lower(Head(name))>> \o normalize_req_name(Tail(name))

key_from_dist(dist) == normalize_req_name(dist.key)

key_from_req(req) == normalize_req_name(req.name)

key_from_ireq(ireq) == normalize_req_name(ireq.name)

(***************************************************************************)
(* Versions and specifiers.  A version is a positive integer; a specifier  *)
(* set is a set of <<operator, version>> clauses, all of which must hold.  *)
(***************************************************************************)
SpecContains(spec, version) ==
    CASE spec[1] = "==" -> version = spec[2]
      [] spec[1] = ">=" -> version >= spec[2]
      [] spec[1] = "<"  -> version < spec[2]
      [] OTHER -> FALSE

\* SpecifierSet.contains: every clause accepts the version (empty set: any)
Contains(specifier, version) == \A spec \in specifier : SpecContains(spec, version)

(***************************************************************************)
(* sync.py                                                                 *)
(***************************************************************************)
n_pip == <<"p", "i", "p">>
n_prequ == <<"p", "r", "e", "q", "u">>
n_a == <<"a">>
n_b == <<"b">>
n_c == <<"c">>
n_zi == <<"z", ".", "i">>
n_ZI == <<"Z", "_", "I">>

PACKAGES_TO_IGNORE ==
    << <<"-", "m", "a", "r", "k", "e", "r", "l", "i", "b">>,
       n_pip,
       n_prequ,
       <<"p", "i", "p", "-", "r", "e", "v", "i", "e", "w">>,
       <<"p", "k", "g", "-", "r", "e", "s", "o", "u", "r", "c", "e", "s">>,
       <<"s", "e", "t", "u", "p", "t", "o", "o", "l", "s">>,
       <<"w", "h", "e", "e", "l">> >>

\* {key_from_dist(r): r for r in installed}
InstalledKeys(installed) ==
    [k \in {key_from_dist(d) : d \in installed} |->
        CHOOSE d \in installed : key_from_dist(d) = k]

RECURSIVE RequiresToQueue_any_version(_, _)
RequiresToQueue_any_version(installed_keys, requires) ==
    IF requires = <<>> THEN <<>>
    ELSE LET dep_name == key_from_req(Head(requires))
             rest == RequiresToQueue_any_version(installed_keys, Tail(requires))
         IN IF dep_name \in DOMAIN installed_keys
            THEN <<installed_keys[dep_name]>> \o rest
            ELSE rest

\* the body of the for loop over v.requires(): the dists appended to the queue
RECURSIVE RequiresToQueue(_, _)
RequiresToQueue(installed_keys, requires) ==
    IF requires = <<>> THEN <<>>
    ELSE LET dep_specifier == Head(requires)
             dep_name == key_from_req(dep_specifier)
             rest == RequiresToQueue(installed_keys, Tail(requires))
         IN IF dep_name \in DOMAIN installed_keys
               /\ Contains(dep_specifier.specifier, installed_keys[dep_name].version)
            THEN <<installed_keys[dep_name]>> \o rest
            ELSE rest

\* the while loop of dependency_tree
RECURSIVE DependencyTreeLoop(_, _, _)
DependencyTreeLoop(installed_keys, queue, dependencies) ==
    IF queue = <<>> THEN dependencies
    ELSE LET v == Head(queue) IN
         IF v.key \in dependencies
         THEN DependencyTreeLoop(installed_keys, Tail(queue), dependencies)
         ELSE DependencyTreeLoop(installed_keys,
                                 Tail(queue) \o RequiresToQueue(installed_keys, v.requires),
                                 dependencies \cup {v.key})

dependency_tree_root_only(installed_keys, root_key) ==
    IF root_key \in DOMAIN installed_keys THEN {installed_keys[root_key].key} ELSE {}

dependency_tree(installed_keys, root_key) ==
    DependencyTreeLoop(installed_keys,
                       IF root_key \in DOMAIN installed_keys
                       THEN <<installed_keys[root_key]>> ELSE <<>>,
                       {})

get_dists_to_ignore(installed) ==
    UNION {dependency_tree(InstalledKeys(installed), PACKAGES_TO_IGNORE[i]) :
           i \in DOMAIN PACKAGES_TO_IGNORE}

\* {key_from_ireq(r): r for r in compiled_requirements}
RequirementsLut(compiled) ==
    [k \in {key_from_ireq(r) : r \in compiled} |->
        CHOOSE r \in compiled : key_from_ireq(r) = k]

\* every installed distribution that does not satisfy the closure is slated
\* for uninstall, one of a wrong version too
diff_uninstall_candidates_unsatisfied(requirements_lut, installed) ==
    {d.key : d \in {x \in installed :
        \/ key_from_dist(x) \notin DOMAIN requirements_lut
        \/ ~requirements_lut[key_from_dist(x)].markers
        \/ ~Contains(requirements_lut[key_from_dist(x)].specifier, x.version)}}

\* first loop of diff: the dist keys slated for uninstall
diff_uninstall_candidates(requirements_lut, installed) ==
    {d.key : d \in {x \in installed :
        key_from_dist(x) \notin DOMAIN requirements_lut
        \/ ~requirements_lut[key_from_dist(x)].markers}}

\* first loop of diff: the satisfied keys
diff_satisfied(requirements_lut, installed) ==
    {key_from_dist(d) : d \in {x \in installed :
        /\ key_from_dist(x) \in DOMAIN requirements_lut
        /\ requirements_lut[key_from_dist(x)].markers
        /\ Contains(requirements_lut[key_from_dist(x)].specifier, x.version)}}

diff_to_install_ignoring_satisfied(requirements_lut, satisfied) ==
    {requirements_lut[k] : k \in {x \in DOMAIN requirements_lut :
        requirements_lut[x].markers}}

\* second loop of diff
diff_to_install(requirements_lut, satisfied) ==
    {requirements_lut[k] : k \in {x \in DOMAIN requirements_lut :
        x \notin satisfied /\ requirements_lut[x].markers}}

diff_to_uninstall_keeping_ignored(candidates, pkgs_to_ignore) == candidates

\* to_uninstall -= set(pkgs_to_ignore)
diff_to_uninstall(candidates, pkgs_to_ignore) == candidates \ pkgs_to_ignore

\* the variables of the dependency cache while nothing uses it
CacheIdle ==
    /\ file_exists = FALSE
    /\ file_content = <<>>
    /\ cache_loaded = FALSE
    /\ cache_map = <<>>
    /\ cache_pc = "off"
    /\ write_doc = <<>>
    /\ write_pos = 0
    /\ cache_error = "none"
    /\ error_path = <<>>
    /\ last_op = "none"
    /\ read_content = <<>>
    /\ old_content = <<>>
    /\ set_log = <<>>
    /\ log_valid = FALSE
    /\ cache_ops = 0

\* the repositories while none is constructed
RepoIdle ==
    /\ index = <<>>
    /\ existing_pins = <<>>
    /\ proxied_calls = 0
    /\ best_match_ireq = <<>>
    /\ best_match_result = <<>>
    /\ proxied_before = 0
    /\ local_ops = 0

\* the variables of cli while it does not run
CliIdle ==
    /\ cli_pc = "off"
    /\ cli_options = <<>>
    /\ src_constraints = {}
    /\ dst_file = <<>>
    /\ constraints = {}
    /\ repository = "none"
    /\ their_constraints = {}
    /\ closure = <<>>
    /\ prev_closure = <<>>
    /\ current_round = 0
    /\ max_rounds = 0
    /\ rounds_run = 0
    /\ dependency_cache = {}
    /\ repository_calls = <<>>
    /\ cli_error = "none"

\* the variables of merge while it does not run
MergeIdle ==
    /\ requirements = <<>>
    /\ ignore_conflicts = FALSE
    /\ by_key = <<>>
    /\ merge_pos = 0
    /\ merge_pc = "off"
    /\ merge_error = <<>>
    /\ merge_result = {}

\* the variables of dependency_tree while it does not run
TreeIdle ==
    /\ tree_installed = {}
    /\ tree_root = <<>>
    /\ tree_queue = <<>>
    /\ tree_dependencies = {}
    /\ tree_expanded = <<>>
    /\ tree_pc = "off"

\* the variables of a PyPIRepository while none is constructed
PypiIdle ==
    /\ available_candidates_cache = <<>>
    /\ finder_queries = <<>>
    /\ finder_asked = {}
    /\ pypi_call = <<>>
    /\ pypi_result = <<>>
    /\ pypi_ops = 0

\* the variables of a DependencyCache in use while none is
DcIdle ==
    /\ dc_call = <<>>
    /\ dc_result = <<>>
    /\ dc_log = <<>>
    /\ dc_before = <<>>
    /\ dc_ops = 0

\* the variables of LocalRequirementsRepository.get_hashes while it is not called
LhIdle ==
    /\ pin_hashes = <<>>
    /\ lh_call = <<>>
    /\ lh_result = <<>>
    /\ lh_ops = 0

\* the variables of file_replacer.py: one FileReplacer while it is not called
FrIdle ==
    /\ fr_pc = "off"
    /\ fr_dest = <<>>
    /\ fr_dest_before = <<>>
    /\ fr_tmp = <<>>
    /\ fr_tmpfile = FALSE
    /\ fr_exit = "none"
    /\ fr_after = <<>>
    /\ fr_closes = 0

\* the variables of repositories/pypi.py: the dependencies memo of one PyPIRepository while it is not called
GdIdle ==
    /\ dependencies_cache = <<>>
    /\ fetch_count = <<>>
    /\ gd_call = <<>>
    /\ gd_result = <<>>
    /\ gd_ops = 0

(***************************************************************************)
(* Inputs of diff.                                                         *)
(***************************************************************************)
MaxVersion == 2

Versions == 1 .. MaxVersion

Req(name, specifier) == [name |-> name, specifier |-> specifier]

\* the requires() lists a distribution of each name may declare
RequiresOptions(name) ==
    CASE name = n_pip -> {<<>>, <<Req(n_a, {<<">=", 2>>})>>,
                          <<Req(n_ZI, {}), Req(n_b, {<<"<", 2>>})>>}
      [] name = n_a -> {<<>>, <<Req(n_b, {})>>}
      [] name = n_b -> {<<>>, <<Req(n_a, {<<"==", 1>>}), Req(n_c, {})>>}
      [] OTHER -> {<<>>}

DistNames == {n_pip, n_a, n_b, n_zi}

DistVersions(name) == IF name = n_zi THEN {1} ELSE Versions

DistsNamed(name) ==
    [key : {name}, version : DistVersions(name), requires : RequiresOptions(name)]

\* a distribution of the name is installed, or none is
InstalledChoice(name) == {{}} \cup {{d} : d \in DistsNamed(name)}

\* get_installed_distributions(): at most one distribution of each key
InstalledSets ==
    {p \cup a \cup b \cup z :
        p \in InstalledChoice(n_pip), a \in InstalledChoice(n_a),
        b \in InstalledChoice(n_b), z \in InstalledChoice(n_zi)}

IReq(name, specifier, markers) ==
    [name |-> name, specifier |-> specifier, markers |-> markers]

DesiredReqs(name) ==
    CASE name = n_a -> {IReq(n_a, {<<"==", v>>}, m) : v \in Versions, m \in BOOLEAN}
      [] name = n_b -> {IReq(n_b, {<<"==", v>>}, TRUE) : v \in Versions}
      [] name = n_ZI -> {IReq(n_ZI, {<<"==", 1>>}, FALSE)}
      [] OTHER -> {IReq(name, {<<"==", 3>>}, TRUE)}

DesiredChoice(name) == {{}} \cup {{r} : r \in DesiredReqs(name)}

\* merge() output: at most one requirement of each key
DesiredSets ==
    {a \cup b \cup c \cup z :
        a \in DesiredChoice(n_a), b \in DesiredChoice(n_b),
        c \in DesiredChoice(n_c), z \in DesiredChoice(n_ZI)}

\* the variables of diff while nothing runs it
DiffIdle ==
    /\ installed_dists = {}
    /\ compiled_requirements = {}
    /\ to_install = {}
    /\ to_uninstall = {}
    /\ diff_pc = "off"

InitDiff ==
    /\ CacheIdle
    /\ RepoIdle
    /\ CliIdle
    /\ MergeIdle
    /\ TreeIdle
    /\ PypiIdle
    /\ DcIdle
    /\ LhIdle
    /\ FrIdle
    /\ GdIdle
    /\ installed_dists \in InstalledSets
    /\ compiled_requirements \in DesiredSets
    /\ to_install = {}
    /\ to_uninstall = {}
    /\ diff_pc = "start"

diff ==
    /\ diff_pc = "start"
    /\ LET requirements_lut == RequirementsLut(compiled_requirements)
           pkgs_to_ignore == get_dists_to_ignore(installed_dists)
           satisfied == diff_satisfied(requirements_lut, installed_dists)
       IN /\ to_install' = diff_to_install(requirements_lut, satisfied)
          /\ to_uninstall' = diff_to_uninstall(
                 diff_uninstall_candidates(requirements_lut, installed_dists),
                 pkgs_to_ignore)
    /\ diff_pc' = "done"
    /\ UNCHANGED <<installed_dists, compiled_requirements>>
    /\ UNCHANGED notDiffVars

NextDiff == diff

SpecDiff == InitDiff /\ [][NextDiff]_vars

(***************************************************************************)
(* Properties of diff.  Reachability from the protected roots is stated    *)
(* as a least fixed point over the installed set.                          *)
(***************************************************************************)
RequiresEdge(u, w) ==
    \E i \in DOMAIN u.requires :
        /\ key_from_req(u.requires[i]) = key_from_dist(w)
        /\ Contains(u.requires[i].specifier, w.version)

RECURSIVE ReachableFrom(_, _)
ReachableFrom(installed, S) ==
    LET S2 == S \cup {w \in installed : \E u \in S : RequiresEdge(u, w)}
    IN IF S2 = S THEN S ELSE ReachableFrom(installed, S2)

ProtectedRoots(installed) ==
    {d \in installed : \E i \in DOMAIN PACKAGES_TO_IGNORE :
        key_from_dist(d) = PACKAGES_TO_IGNORE[i]}

ProtectedKeys(installed) ==
    {d.key : d \in ReachableFrom(installed, ProtectedRoots(installed))}

DesiredKeys == {key_from_ireq(r) : r \in compiled_requirements}

DesiredEntry(k) == CHOOSE r \in compiled_requirements : key_from_ireq(r) = k

\* C1: diff() never puts in to_uninstall a package that is reachable from an
\* installed protected root, even when the desired closure does not hold it.
C1_ProtectedNeverUninstalled ==
    diff_pc = "done" => to_uninstall \cap ProtectedKeys(installed_dists) = {}

C1_Witness ==
    /\ diff_pc = "done"
    /\ \E d \in installed_dists :
        /\ d \notin ProtectedRoots(installed_dists)
        /\ d.key \in ProtectedKeys(installed_dists)
        /\ key_from_dist(d) \notin DesiredKeys
        /\ d.key \notin to_uninstall

UninstallExpected ==
    {d.key : d \in {x \in installed_dists :
        /\ \/ key_from_dist(x) \notin DesiredKeys
           \/ ~DesiredEntry(key_from_dist(x)).markers
        /\ x.key \notin ProtectedKeys(installed_dists)}}

ExampleInstalled ==
    {<<d.key, d.version>> : d \in installed_dists} = {<<n_a, 1>>, <<n_b, 2>>}

ExampleDesired ==
    compiled_requirements =
        {IReq(n_a, {<<"==", 1>>}, TRUE), IReq(n_c, {<<"==", 3>>}, TRUE)}

\* C2: an installed package is in to_uninstall exactly when its key is absent
\* from the desired closure, or present with markers that do not apply, and the
\* package is not protected; installed {A@1, B@2} with desired {A==1, C==3}
\* gives to_uninstall = {B}.
C2_UninstallExactly ==
    diff_pc = "done" =>
        /\ to_uninstall = UninstallExpected
        /\ (ExampleInstalled /\ ExampleDesired) => to_uninstall = {n_b}

C2_Witness ==
    /\ diff_pc = "done"
    /\ ExampleInstalled
    /\ ExampleDesired
    /\ to_uninstall = {n_b}

\* satisfied, as the claim defines it: an installed distribution of the key whose
\* version is contained in the desired specifier
SatisfiedKeys ==
    {k \in DesiredKeys : \E d \in installed_dists :
        key_from_dist(d) = k /\ Contains(DesiredEntry(k).specifier, d.version)}

\* C3 as stated: to_install holds every desired entry whose key is not
\* satisfied, and no entry whose key is satisfied.
C3_Original ==
    diff_pc = "done" =>
        to_install = {r \in compiled_requirements : key_from_ireq(r) \notin SatisfiedKeys}

\* C3 (amended): to_install holds every desired entry whose environment
\* markers apply and whose key is not satisfied, and no other entry.
C3_InstallUnsatisfiedWithMarkers ==
    diff_pc = "done" =>
        to_install = {r \in compiled_requirements :
                        r.markers /\ key_from_ireq(r) \notin SatisfiedKeys}

C3_Witness ==
    /\ diff_pc = "done"
    /\ \E r \in compiled_requirements :
        ~r.markers /\ key_from_ireq(r) \notin SatisfiedKeys /\ r \notin to_install
    /\ \E r \in compiled_requirements :
        key_from_ireq(r) \in SatisfiedKeys /\ r \notin to_install
    /\ \E r \in to_install : key_from_ireq(r) \notin SatisfiedKeys

\* C29: no package is in both results of diff(): the key of a requirement in
\* to_install is not in to_uninstall, neither as it stands nor as the
\* normalised key of a name in to_uninstall.
C29_InstallAndUninstallDisjoint ==
    diff_pc = "done" =>
        \A r \in to_install :
            /\ key_from_ireq(r) \notin to_uninstall
            /\ key_from_ireq(r) \notin {normalize_req_name(k) : k \in to_uninstall}

\* a package installed at another version than the desired one is to be
\* installed and not uninstalled, while some other package is uninstalled
C29_Witness ==
    /\ diff_pc = "done"
    /\ to_uninstall # {}
    /\ \E r \in to_install : \E d \in installed_dists :
        /\ key_from_dist(d) = key_from_ireq(r)
        /\ ~Contains(r.specifier, d.version)
        /\ d.key \notin to_uninstall

(***************************************************************************)
(* cache.py: the persistent dependency cache.                              *)
(***************************************************************************)
\* get_ireq_version: the == version that the whole specifier accepts, if any
PinnedVersions(ireq) ==
    {spec[2] : spec \in {x \in ireq.specifier :
        x[1] = "==" /\ Contains(ireq.specifier, x[2])}}

HasVersion(ireq) == PinnedVersions(ireq) # {}

get_ireq_version(ireq) == CHOOSE v \in PinnedVersions(ireq) : TRUE

\* get_pinned_version(ireq) is not None
is_pinned_requirement(ireq) == ~ireq.editable /\ HasVersion(ireq)

\* the order sorted() gives the extras
ExtraOrder == <<"x", "y">>

\* tuple(sorted(ireq.extras))
SortedExtras(extras) ==
    LET IsIn(e) == e \in extras IN SelectSeq(ExtraOrder, IsIn)

\* ",".join(extras)
RECURSIVE JoinComma(_)
JoinComma(seq) ==
    IF Len(seq) <= 1 THEN seq ELSE <<Head(seq), ",">> \o JoinComma(Tail(seq))

as_cache_key_without_extras(ireq) ==
    [ok |-> HasVersion(ireq) \/ ireq.link # "",
     name |-> key_from_ireq(ireq),
     version |-> IF HasVersion(ireq)
                 THEN <<ToString(get_ireq_version(ireq))>>
                 ELSE <<":UNPINNED:">>]

\* as_cache_key: the pair (name, version + extras_string), the second a string
\* modelled as the sequence of its parts; ok is FALSE where ValueError is raised
as_cache_key(ireq) ==
    LET extras == SortedExtras(ireq.extras)
        version == IF HasVersion(ireq)
                   THEN <<ToString(get_ireq_version(ireq))>>
                   ELSE <<":UNPINNED:">>
        extras_string == IF extras = <<>> THEN <<>>
                         ELSE <<"[">> \o JoinComma(extras) \o <<"]">>
        editable_string == IF ireq.editable THEN <<":EDITABLE:", ireq.link>> ELSE <<>>
    IN [ok |-> HasVersion(ireq) \/ ireq.link # "",
        name |-> key_from_ireq(ireq),
        version |-> version \o extras_string \o editable_string]

\* 'sentinel' in version
InString(sentinel, version) == \E i \in DOMAIN version : version[i] = sentinel

strip_nothing(cache) == cache

strip_unpinned_only(cache) ==
    [name \in DOMAIN cache |->
        [version \in {v \in DOMAIN cache[name] : ~InString(":UNPINNED:", v)} |->
            cache[name][version]]]

\* _strip_unpinned_and_editables
strip_unpinned_and_editables(cache) ==
    [name \in DOMAIN cache |->
        [version \in {v \in DOMAIN cache[name] :
            ~InString(":UNPINNED:", v) /\ ~InString(":EDITABLE:", v)} |->
            cache[name][version]]]

(***************************************************************************)
(* The cache file.  json.dump hands the document to the file object in     *)
(* chunks; a chunk is modelled as one token.                               *)
(***************************************************************************)
Tok(t, name, version, deps, fmt) ==
    [t |-> t, name |-> name, version |-> version, deps |-> deps, fmt |-> fmt]

Punct(t) == Tok(t, <<>>, <<>>, <<>>, 0)

\* the elements of a finite set in a fixed order (sort_keys=True)
RECURSIVE SortedSeq(_)
SortedSeq(S) ==
    IF S = {} THEN <<>>
    ELSE LET x == CHOOSE y \in S : TRUE IN <<x>> \o SortedSeq(S \ {x})

RECURSIVE Flatten(_)
Flatten(seqs) == IF seqs = <<>> THEN <<>> ELSE Head(seqs) \o Flatten(Tail(seqs))

DumpDepMap(name, dep_map) ==
    LET versions == SortedSeq(DOMAIN dep_map) IN
    <<Tok("name", name, <<>>, <<>>, 0)>>
    \o [i \in DOMAIN versions |->
            Tok("entry", name, versions[i], dep_map[versions[i]], 0)]

\* json.dump({'__format__': fmt, 'dependencies': dependencies}, f, sort_keys=True)
json_dump(fmt, dependencies) ==
    LET names == SortedSeq(DOMAIN dependencies) IN
    <<Punct("{"), Tok("__format__", <<>>, <<>>, <<>>, fmt), Punct("dependencies{")>>
    \o Flatten([i \in DOMAIN names |-> DumpDepMap(names[i], dependencies[names[i]])])
    \o <<Punct("}"), Punct("}")>>

\* the tokens between "dependencies{" and its "}" form name groups
WellGrouped(inner) ==
    /\ \A i \in DOMAIN inner : inner[i].t \in {"name", "entry"}
    /\ \A i \in DOMAIN inner : inner[i].t = "entry" =>
           \E j \in 1 .. (i - 1) :
               /\ inner[j].t = "name"
               /\ inner[j].name = inner[i].name
               /\ \A k \in (j + 1) .. (i - 1) : inner[k].t = "entry"

LoadDeps(inner) ==
    [name \in {inner[i].name : i \in {j \in DOMAIN inner : inner[j].t = "name"}} |->
        [version \in {inner[i].version :
                        i \in {j \in DOMAIN inner :
                                 inner[j].t = "entry" /\ inner[j].name = name}} |->
            LET last == CHOOSE i \in DOMAIN inner :
                            /\ inner[i].t = "entry"
                            /\ inner[i].name = name
                            /\ inner[i].version = version
                            /\ \A j \in DOMAIN inner :
                                 (inner[j].t = "entry" /\ inner[j].name = name
                                  /\ inner[j].version = version) => j <= i
            IN inner[last].deps]]

NoJson ==
    [ok |-> FALSE, is_dict |-> FALSE, has_format |-> FALSE, fmt |-> 0,
     has_deps |-> FALSE, deps |-> <<>>]

\* json.load: ok is FALSE where ValueError is raised
json_load(content) ==
    IF content = <<Punct("[]")>>
    THEN [NoJson EXCEPT !.ok = TRUE]
    ELSE IF Len(content) < 2 \/ content[1].t # "{" \/ content[Len(content)].t # "}"
    THEN NoJson
    ELSE LET members == SubSeq(content, 2, Len(content) - 1)
             has_format == members # <<>> /\ members[1].t = "__format__"
             rest == IF has_format THEN Tail(members) ELSE members
         IN IF rest = <<>>
            THEN [NoJson EXCEPT !.ok = TRUE, !.is_dict = TRUE,
                                !.has_format = has_format,
                                !.fmt = IF has_format THEN members[1].fmt ELSE 0]
            ELSE IF Len(rest) < 2 \/ rest[1].t # "dependencies{"
                    \/ rest[Len(rest)].t # "}"
                    \/ ~WellGrouped(SubSeq(rest, 2, Len(rest) - 1))
            THEN NoJson
            ELSE [ok |-> TRUE, is_dict |-> TRUE, has_format |-> has_format,
                  fmt |-> IF has_format THEN members[1].fmt ELSE 0,
                  has_deps |-> TRUE,
                  deps |-> LoadDeps(SubSeq(rest, 2, Len(rest) - 1))]

\* self._cache_file
CachePath == <<"depcache-py3.6.json">>

Raised(error, path) == [error |-> error, path |-> path, deps |-> <<>>]

\* read_cache_file: the exception raised, or "none" and the dependencies loaded
read_cache_file(cache_file_path, content) ==
    LET doc == json_load(content) IN
    IF ~doc.ok THEN Raised("CorruptCacheError", cache_file_path)
    ELSE IF ~doc.is_dict THEN Raised("TypeError", <<>>)
    ELSE IF ~doc.has_format THEN Raised("KeyError", <<>>)
    ELSE IF doc.fmt # 1 THEN Raised("AssertionError", <<>>)
    ELSE IF ~doc.has_deps THEN Raised("KeyError", <<>>)
    ELSE [error |-> "none", path |-> <<>>, deps |-> doc.deps]

\* read_cache, without the assignment to self._cache
read_cache_result ==
    IF file_exists THEN read_cache_file(CachePath, file_content)
    ELSE [error |-> "none", path |-> <<>>, deps |-> <<>>]

(***************************************************************************)
(* Inputs of the cache operations.                                         *)
(***************************************************************************)
MaxCacheOps == 3

CacheIReq(name, specifier, extras, editable, link) ==
    [name |-> name, specifier |-> specifier, extras |-> extras,
     editable |-> editable, link |-> link]

PinnedIReqs ==
    {CacheIReq(n_a, {<<"==", 1>>}, {}, FALSE, ""),
     CacheIReq(n_a, {<<"==", 2>>}, {"x", "y"}, FALSE, ""),
     CacheIReq(n_ZI, {<<"==", 1>>, <<">=", 1>>}, {}, FALSE, "")}

UnpinnedOrEditableIReqs ==
    {CacheIReq(n_a, {}, {}, FALSE, "git+L"),
     CacheIReq(n_a, {<<"==", 1>>}, {}, TRUE, "file:L"),
     CacheIReq(n_b, {<<">=", 1>>}, {"x"}, TRUE, "git+L"),
     CacheIReq(n_b, {<<">=", 1>>}, {}, FALSE, "")}

CacheIReqs == PinnedIReqs \cup UnpinnedOrEditableIReqs

\* the dependency lists a requirement may be set to
DepLists(ireq) ==
    IF ireq.name = n_a /\ ~ireq.editable
    THEN {<<>>, <<"c>=1", "d">>}
    ELSE {<<"d">>}

InitialFiles ==
    {json_dump(1, <<>>),
     json_dump(1, [n \in {n_a} |-> [v \in {<<"1">>} |-> <<"d">>]]),
     json_dump(2, <<>>),
     <<Punct("not json")>>,
     <<Punct("[]")>>,
     <<Punct("{"), Punct("}")>>,
     <<Punct("{"), Tok("__format__", <<>>, <<>>, <<>>, 1), Punct("}")>>,
     <<Punct("{"), Tok("__format__", <<>>, <<>>, <<>>, 1), Punct("dependencies{")>>}

InitCache ==
    /\ DiffIdle
    /\ RepoIdle
    /\ CliIdle
    /\ MergeIdle
    /\ TreeIdle
    /\ PypiIdle
    /\ DcIdle
    /\ LhIdle
    /\ FrIdle
    /\ GdIdle
    /\ \/ file_exists = FALSE /\ file_content = <<>>
       \/ file_exists = TRUE /\ file_content \in InitialFiles
    /\ cache_loaded = FALSE
    /\ cache_map = <<>>
    /\ cache_pc = "idle"
    /\ write_doc = <<>>
    /\ write_pos = 0
    /\ cache_error = "none"
    /\ error_path = <<>>
    /\ last_op = "none"
    /\ read_content = <<>>
    /\ old_content = file_content
    /\ set_log = <<>>
    /\ log_valid = (~file_exists \/ file_content = json_dump(1, <<>>))
    /\ cache_ops = 0

\* an operation returns by raising error; nothing else changes
Raise(op, error, path) ==
    /\ cache_error' = error
    /\ error_path' = path
    /\ last_op' = op
    /\ UNCHANGED <<file_exists, file_content, cache_loaded, cache_map, cache_pc,
                   write_doc, write_pos, old_content, set_log, log_valid>>

\* write_cache up to open(self._cache_file, 'w'), which truncates the file
BeginWrite(cache) ==
    /\ write_doc' = json_dump(1, strip_unpinned_and_editables(cache))
    /\ write_pos' = 0
    /\ old_content' = file_content
    /\ file_exists' = TRUE
    /\ file_content' = <<>>
    /\ cache_pc' = "writing"

\* what set_log files a requirement under: a pinned, non-editable requirement
\* under its key, version and extras, any other also under its link
LogId(ireq) ==
    IF is_pinned_requirement(ireq)
    THEN <<key_from_ireq(ireq), get_ireq_version(ireq), ireq.extras, FALSE, "">>
    ELSE <<key_from_ireq(ireq), 0, ireq.extras, ireq.editable, ireq.link>>

Put(f, k, v) == [x \in DOMAIN f \cup {k} |-> IF x = k THEN v ELSE f[x]]

SetEntry_replacing_versions(cache, name, version, values) ==
    Put(cache, name, Put(<<>>, version, values))

\* self.cache.setdefault(pkgname, {}); self.cache[pkgname][version] = values
SetEntry(cache, name, version, values) ==
    Put(cache, name,
        Put(IF name \in DOMAIN cache THEN cache[name] ELSE <<>>, version, values))

\* DependencyCache.__setitem__
SetItem(ireq, values) ==
    /\ cache_pc = "idle"
    /\ cache_ops < MaxCacheOps
    /\ cache_ops' = cache_ops + 1
    /\ LET key == as_cache_key(ireq)
           loaded == read_cache_result
       IN IF ~key.ok
          THEN Raise("set", "ValueError", <<>>) /\ read_content' = <<>>
          ELSE IF ~cache_loaded /\ loaded.error # "none"
          THEN Raise("set", loaded.error, loaded.path) /\ read_content' = file_content
          ELSE LET cache == SetEntry(IF cache_loaded THEN cache_map ELSE loaded.deps,
                                     key.name, key.version, values)
               IN /\ cache_loaded' = TRUE
                  /\ cache_map' = cache
                  /\ read_content' = IF cache_loaded THEN <<>> ELSE file_content
                  /\ BeginWrite(cache)
                  /\ set_log' = IF log_valid
                                THEN Put(set_log, LogId(ireq),
                                         [ireq |-> ireq, deps |-> values])
                                ELSE set_log
                  /\ cache_error' = "none"
                  /\ error_path' = <<>>
                  /\ last_op' = "set"
                  /\ UNCHANGED log_valid
    /\ UNCHANGED notCacheVars

\* DependencyCache.clear
Clear ==
    /\ cache_pc = "idle"
    /\ cache_ops < MaxCacheOps
    /\ cache_ops' = cache_ops + 1
    /\ cache_loaded' = TRUE
    /\ cache_map' = <<>>
    /\ BeginWrite(<<>>)
    /\ set_log' = <<>>
    /\ log_valid' = TRUE
    /\ cache_error' = "none"
    /\ error_path' = <<>>
    /\ last_op' = "clear"
    /\ read_content' = <<>>
    /\ UNCHANGED notCacheVars

\* DependencyCache.write_cache, called on its own
WriteCache ==
    /\ cache_pc = "idle"
    /\ cache_ops < MaxCacheOps
    /\ cache_ops' = cache_ops + 1
    /\ IF ~cache_loaded
       THEN Raise("write_cache", "AttributeError", <<>>)
       ELSE /\ BeginWrite(cache_map)
            /\ cache_error' = "none"
            /\ error_path' = <<>>
            /\ last_op' = "write_cache"
            /\ UNCHANGED <<cache_loaded, cache_map, set_log, log_valid>>
    /\ read_content' = <<>>
    /\ UNCHANGED notCacheVars

\* json.dump hands the next chunk to the file object, which may flush its buffer
WriteChunk ==
    /\ cache_pc = "writing"
    /\ write_pos < Len(write_doc)
    /\ write_pos' = write_pos + 1
    /\ \/ file_content' = file_content
       \/ file_content' = SubSeq(write_doc, 1, write_pos + 1)
    /\ UNCHANGED <<file_exists, cache_loaded, cache_map, cache_pc, write_doc,
                   cache_error, error_path, last_op, read_content, old_content,
                   set_log, log_valid, cache_ops, notCacheVars>>

\* leaving the with block closes the file, which flushes the rest
WriteClose ==
    /\ cache_pc = "writing"
    /\ write_pos = Len(write_doc)
    /\ file_content' = write_doc
    /\ old_content' = write_doc
    /\ write_doc' = <<>>
    /\ write_pos' = 0
    /\ cache_pc' = "idle"
    /\ UNCHANGED <<file_exists, cache_loaded, cache_map, cache_error, error_path,
                   last_op, read_content, set_log, log_valid, cache_ops, notCacheVars>>

\* the process dies inside write_cache; what was not flushed is lost
Crash ==
    /\ cache_pc = "writing"
    /\ cache_pc' = "crashed"
    /\ cache_loaded' = FALSE
    /\ cache_map' = <<>>
    /\ cache_error' = "none"
    /\ error_path' = <<>>
    /\ last_op' = "crash"
    /\ read_content' = <<>>
    /\ log_valid' = FALSE
    /\ set_log' = <<>>
    /\ UNCHANGED <<file_exists, file_content, write_doc, write_pos, old_content,
                   cache_ops, notCacheVars>>

\* DependencyCache.__init__ in a new process
NewInstance ==
    /\ cache_pc \in {"idle", "crashed"}
    /\ cache_loaded \/ cache_pc = "crashed"
    /\ cache_pc' = "idle"
    /\ cache_loaded' = FALSE
    /\ cache_map' = <<>>
    /\ cache_error' = "none"
    /\ error_path' = <<>>
    /\ last_op' = "init"
    /\ write_doc' = <<>>
    /\ write_pos' = 0
    /\ old_content' = file_content
    /\ read_content' = <<>>
    /\ UNCHANGED <<file_exists, file_content, set_log, log_valid, cache_ops, notCacheVars>>

\* DependencyCache.cache on first use: read_cache
ReadCache ==
    /\ cache_pc = "idle"
    /\ ~cache_loaded
    /\ last_op # "read_cache"
    /\ read_content' = file_content
    /\ LET loaded == read_cache_result IN
       IF loaded.error # "none"
       THEN Raise("read_cache", loaded.error, loaded.path)
       ELSE /\ cache_loaded' = TRUE
            /\ cache_map' = loaded.deps
            /\ cache_error' = "none"
            /\ error_path' = <<>>
            /\ last_op' = "read_cache"
            /\ UNCHANGED <<file_exists, file_content, cache_pc, write_doc, write_pos,
                           old_content, set_log, log_valid>>
    /\ UNCHANGED <<cache_ops, notCacheVars>>

NextCache ==
    \/ \E ireq \in CacheIReqs : \E values \in DepLists(ireq) : SetItem(ireq, values)
    \/ Clear
    \/ WriteCache
    \/ WriteChunk
    \/ WriteClose
    \/ Crash
    \/ NewInstance
    \/ ReadCache

SpecCache == InitCache /\ [][NextCache]_vars

(***************************************************************************)
(* Properties of the dependency cache.                                     *)
(***************************************************************************)
HasSentinel(version) == InString(":UNPINNED:", version) \/ InString(":EDITABLE:", version)

\* C5: after any sequence of set, clear and write operations the cache file
\* holds no entry whose version string contains :UNPINNED: or :EDITABLE:.
C5_NoSentinelOnDisk ==
    \A i \in DOMAIN file_content :
        file_content[i].t = "entry" => ~HasSentinel(file_content[i].version)

C5_Witness ==
    /\ cache_pc = "idle"
    /\ last_op = "set"
    /\ cache_error = "none"
    /\ \E name \in DOMAIN cache_map : \E version \in DOMAIN cache_map[name] :
           HasSentinel(version)
    /\ \E i \in DOMAIN file_content : file_content[i].t = "entry"

CacheEntries(cache) == UNION {{<<name, version>> : version \in DOMAIN cache[name]} :
                              name \in DOMAIN cache}

\* DependencyCache.get
CacheGet(cache, ireq) ==
    LET key == as_cache_key(ireq) IN
    IF key.name \in DOMAIN cache /\ key.version \in DOMAIN cache[key.name]
    THEN [found |-> TRUE, deps |-> cache[key.name][key.version]]
    ELSE [found |-> FALSE, deps |-> <<>>]

PinnedLogged == {id \in DOMAIN set_log : is_pinned_requirement(set_log[id].ireq)}

\* C6: after N pinned non-editable and M unpinned or editable entries were set
\* in an empty cache, a fresh DependencyCache reading the file holds exactly
\* the N pinned entries, each with the dependency list it was set to.
C6_RoundTrip ==
    (cache_pc = "idle" /\ log_valid /\ last_op = "read_cache") =>
        /\ cache_error = "none"
        /\ Cardinality(CacheEntries(cache_map)) = Cardinality(PinnedLogged)
        /\ \A id \in PinnedLogged :
               CacheGet(cache_map, set_log[id].ireq) =
                   [found |-> TRUE, deps |-> set_log[id].deps]

C6_Witness ==
    /\ cache_pc = "idle"
    /\ log_valid
    /\ last_op = "read_cache"
    /\ Cardinality(PinnedLogged) >= 1
    /\ Cardinality(DOMAIN set_log \ PinnedLogged) >= 1
    /\ \E id \in PinnedLogged : set_log[id].deps # <<>>

\* the document the cache expects: a JSON object with format tag 1 and dependencies
IsCacheDocument(content) ==
    LET doc == json_load(content) IN
    doc.ok /\ doc.is_dict /\ doc.has_format /\ doc.fmt = 1 /\ doc.has_deps

\* C7: reading an existing cache file that is not the expected document, or whose
\* format tag is not 1, fails with CorruptCacheError naming the file, and loads
\* no entries.
C7_CorruptCacheErrorOnBadFile ==
    (last_op = "read_cache" /\ file_exists /\ ~IsCacheDocument(read_content)) =>
        /\ cache_error = "CorruptCacheError"
        /\ error_path = CachePath
        /\ ~cache_loaded

\* C8: at every point of a cache write, a crash included, the cache file holds
\* the complete previous document or the complete new one.
C8_FileAlwaysComplete ==
    file_exists => (file_content = old_content \/ file_content = write_doc)

(***************************************************************************)
(* Requirements as the repositories see them.                              *)
(***************************************************************************)
\* an InstallRequirement; markers is TRUE when it has no markers or they match
InstallRequirement(name, specifier, extras, editable, link, constraint, markers) ==
    [name |-> name, specifier |-> specifier, extras |-> extras,
     editable |-> editable, link |-> link, constraint |-> constraint,
     markers |-> markers]

\* install_req_from_line('{}{}=={}'.format(name, extras_string, version), ...)
make_install_requirement(name, version, extras, constraint) ==
    InstallRequirement(name, {<<"==", version>>}, extras, FALSE, "", constraint, TRUE)

\* the links that are not artifacts
VcsLinks == {"git+L"}

is_vcs_link(ireq) == ireq.link # "" /\ ireq.link \in VcsLinks

(***************************************************************************)
(* repositories/pypi.py: PyPIRepository.                                   *)
(***************************************************************************)
\* the versions the index has of the name
find_all_candidates(idx, req_name) ==
    LET key == normalize_req_name(req_name)
    IN IF key \in DOMAIN idx THEN DOMAIN idx[key] ELSE {}

\* the result of a find_best_match: a requirement, or the error raised
Found(ireq) == [error |-> "none", ireq |-> ireq]

NoCandidateFound_without_candidates(ireq, candidates_tried) ==
    [error |-> "NoCandidateFound", ireq |-> ireq, candidates_tried |-> {}]

\* NoCandidateFound(ireq, all_candidates, self.finder)
NoCandidateFound(ireq, candidates_tried) ==
    [error |-> "NoCandidateFound", ireq |-> ireq, candidates_tried |-> candidates_tried]

BestCandidate_lowest(matching) == CHOOSE v \in matching : \A w \in matching : v <= w

\* max(matching_candidates, key=...): the highest version
BestCandidate(matching) == CHOOSE v \in matching : \A w \in matching : w <= v

\* find_best_match from the candidates of the name on: filter, rank, pin
best_match_among(ireq, all_candidates) ==
    LET matching == {v \in all_candidates : Contains(ireq.specifier, v)}
    IN IF matching = {}
       THEN NoCandidateFound(ireq, all_candidates)
       ELSE Found(make_install_requirement(
                normalize_req_name(ireq.name), BestCandidate(matching),
                ireq.extras, ireq.constraint))

is_own_best_match_any_link(ireq) == ireq.editable \/ ireq.link # ""

\* whether find_best_match returns the requirement as its own best match
is_own_best_match(ireq) == ireq.editable \/ is_vcs_link(ireq)

pypi_find_best_match(idx, ireq) ==
    IF is_own_best_match(ireq)
    THEN Found(ireq)
    ELSE best_match_among(ireq, find_all_candidates(idx, ireq.name))

(***************************************************************************)
(* repositories/local.py: LocalRequirementsRepository.                     *)
(***************************************************************************)
\* A requirement read from the output file.  Its specifier is a SpecifierSet,
\* which iterates over a frozenset of clauses: first is the clause that
\* iter() yields first, any clause of the specifier.
ExistingPin(name, specifier, first) ==
    [name |-> name, specifier |-> specifier, extras |-> {}, editable |-> FALSE,
     link |-> "", constraint |-> FALSE, markers |-> TRUE, first |-> first]

\* version = next(iter(existing_pin.req.specifier)).version
\* return version in ireq.req.specifier
ireq_satisfied_by_existing_pin(ireq, existing_pin) ==
    Contains(ireq.specifier, existing_pin.first[2])

\* whether find_best_match hands the requirement to the proxied repository
local_delegates(pins, ireq) ==
    LET key == key_from_ireq(ireq)
    IN ~(key \in DOMAIN pins /\ ireq_satisfied_by_existing_pin(ireq, pins[key]))

local_find_best_match(pins, idx, ireq) ==
    LET key == key_from_ireq(ireq)
    IN IF local_delegates(pins, ireq)
       THEN pypi_find_best_match(idx, ireq)
       ELSE Found(make_install_requirement(
                pins[key].name, get_ireq_version(pins[key]),
                ireq.extras, ireq.constraint))

(***************************************************************************)
(* Inputs of the repositories.                                             *)
(***************************************************************************)
MaxLocalOps == 2

n_A == <<"A">>

k_zi == normalize_req_name(n_ZI)

IndexKeys == {n_a, n_b, k_zi}

IndexVersions(key) == IF key = n_b THEN {1} ELSE Versions

\* no package requires anything
IndexFlat == [k \in IndexKeys |-> [v \in IndexVersions(k) |-> {}]]

\* a requires b, b requires z.i
IndexChain ==
    [k \in IndexKeys |-> [v \in IndexVersions(k) |->
        CASE k = n_a -> {Req(n_b, {})}
          [] k = n_b -> {Req(n_zi, {<<">=", 1>>})}
          [] OTHER -> {}]]

\* the newer versions of a require b, and b requires an old a
IndexNarrowing ==
    [k \in IndexKeys |-> [v \in IndexVersions(k) |->
        CASE k = n_a /\ v >= 2 -> {Req(n_b, {})}
          [] k = n_b -> {Req(n_A, {<<"<", 2>>})}
          [] OTHER -> {}]]

\* a requires b, and b pins a to its oldest version
IndexPinning ==
    [k \in IndexKeys |-> [v \in IndexVersions(k) |->
        CASE k = n_a -> {Req(n_b, {})}
          [] k = n_b -> {Req(n_a, {<<"==", 1>>})}
          [] OTHER -> {}]]

IndexOptions == {IndexFlat, IndexChain, IndexNarrowing, IndexPinning}

\* existing pins are the lines of the output file that is_pinned_requirement
\* accepts: also those with clauses besides the == clause
PinOptions(name) ==
    IF name = n_a
    THEN {ExistingPin(n_a, {<<"==", v>>}, <<"==", v>>) : v \in Versions}
         \cup {ExistingPin(n_a, {<<">=", 1>>, <<"==", MaxVersion>>}, first) :
                  first \in {<<">=", 1>>, <<"==", MaxVersion>>}}
    ELSE {ExistingPin(name, {<<"==", 1>>}, <<"==", 1>>)}

PinChoice(name) == {{}} \cup {{pin} : pin \in PinOptions(name)}

\* {key_from_ireq(ireq): ireq for ireq in ireqs}
PinsOf(ireqs) ==
    [key \in {key_from_ireq(ireq) : ireq \in ireqs} |->
        CHOOSE ireq \in ireqs : key_from_ireq(ireq) = key]

ExistingPinSets == {PinsOf(a \cup z) : a \in PinChoice(n_a), z \in PinChoice(n_ZI)}

LocalRequests ==
    {InstallRequirement(name, specifier, extras, FALSE, "", FALSE, TRUE) :
        name \in {n_a, n_A, n_b, n_zi},
        specifier \in {{}, {<<"==", 1>>}, {<<">=", 2>>}, {<<"<", 2>>},
                       {<<">=", 1>>, <<"<", 3>>}},
        extras \in {{}, {"x"}}}

\* editable requirements and version-control links, with and without extras;
\* their requirement carries a name and no version clause
LocalLinkRequests ==
    {InstallRequirement(name, {}, extras, editable, link, FALSE, TRUE) :
        name \in {n_a, n_b, n_ZI},
        extras \in {{}, {"x"}},
        editable \in BOOLEAN,
        link \in {"git+L"}}
    \cup {InstallRequirement(n_a, {}, {}, TRUE, "file:L", FALSE, TRUE)}

InitLocal ==
    /\ DiffIdle
    /\ CacheIdle
    /\ CliIdle
    /\ MergeIdle
    /\ TreeIdle
    /\ PypiIdle
    /\ DcIdle
    /\ LhIdle
    /\ FrIdle
    /\ GdIdle
    /\ index \in IndexOptions
    /\ existing_pins \in ExistingPinSets
    /\ proxied_calls = 0
    /\ best_match_ireq = <<>>
    /\ best_match_result = <<>>
    /\ proxied_before = 0
    /\ local_ops = 0

\* LocalRequirementsRepository.find_best_match
find_best_match(ireq) ==
    /\ local_ops < MaxLocalOps
    /\ local_ops' = local_ops + 1
    /\ best_match_ireq' = ireq
    /\ best_match_result' = local_find_best_match(existing_pins, index, ireq)
    /\ proxied_before' = proxied_calls
    /\ proxied_calls' = IF local_delegates(existing_pins, ireq)
                        THEN proxied_calls + 1
                        ELSE proxied_calls
    /\ UNCHANGED <<index, existing_pins>>
    /\ UNCHANGED notRepoVars

NextLocal == \E ireq \in LocalRequests \cup LocalLinkRequests : find_best_match(ireq)

SpecLocal == InitLocal /\ [][NextLocal]_vars

(***************************************************************************)
(* Properties of the local-override repository.                            *)
(***************************************************************************)
\* the pin find_best_match looks up for the requirement, if there is one
HasExistingPin == normalize_req_name(best_match_ireq.name) \in DOMAIN existing_pins

ExistingPinFor == existing_pins[normalize_req_name(best_match_ireq.name)]

\* the existing pin's version satisfies the requirement's specifier
PinSatisfies ==
    /\ HasExistingPin
    /\ Contains(best_match_ireq.specifier, get_ireq_version(ExistingPinFor))

\* C4: find_best_match returns the existing pin's version without calling the
\* wrapped repository when an existing pin for the requirement's key satisfies
\* the requirement's specifier; otherwise it calls the wrapped repository's
\* find_best_match exactly once and returns that result.
C4_ReuseExactlyWhenPinSatisfies ==
    local_ops > 0 =>
        IF PinSatisfies
        THEN /\ best_match_result.error = "none"
             /\ best_match_result.ireq.specifier =
                    {<<"==", get_ireq_version(ExistingPinFor)>>}
             /\ proxied_calls = proxied_before
        ELSE /\ proxied_calls = proxied_before + 1
             /\ best_match_result = pypi_find_best_match(index, best_match_ireq)

\* C28: find_best_match of the wrapper returns an editable requirement and a
\* version-control link as they are, whether or not an existing pin has
\* their key.
C28_EditableIsOwnBestMatch ==
    (local_ops > 0 /\ (best_match_ireq.editable \/ is_vcs_link(best_match_ireq))) =>
        best_match_result = Found(best_match_ireq)

(***************************************************************************)
(* scripts/compile_in.py: cli.  The Resolver (resolver.py) is not part of  *)
(* the sources; check_constraints, resolve and resolve_hashes follow the   *)
(* description of the resolver in the specification (4.3).                 *)
(***************************************************************************)
\* the statements of cli in the order it runs them
cli_steps_without_check ==
    <<"setup", "collect", "resolve", "resolve_hashes", "done">>

cli_steps ==
    <<"setup", "collect", "check_constraints", "resolve", "resolve_hashes", "done">>

StepAfter(step) ==
    cli_steps[(CHOOSE i \in DOMAIN cli_steps : cli_steps[i] = step) + 1]

resolve_one_more_round(options) == options.max_rounds + 1

\* resolver.resolve(max_rounds=max_rounds)
resolve_max_rounds(options) == options.max_rounds

NoCalls == [find_best_match |-> 0, get_dependencies |-> 0, get_hashes |-> 0]

\* the == versions a requirement names
ExactVersions(ireq) == {spec[2] : spec \in {x \in ireq.specifier : x[1] = "=="}}

\* two entries of one key that pin it to different exact versions
ConflictingPins(reqs) ==
    {pair \in reqs \X reqs :
        /\ key_from_ireq(pair[1]) = key_from_ireq(pair[2])
        /\ \E v \in ExactVersions(pair[1]) :
               \E w \in ExactVersions(pair[2]) : v # w}

\* a requirement of a package, as the resolver takes it into its frontier
DepIReq(req) == InstallRequirement(req.name, req.specifier, {}, FALSE, "", FALSE, TRUE)

FrontierKeys(frontier) == {key_from_ireq(ireq) : ireq \in frontier}

\* the requirements of one key, combined into one
Combine(frontier, key) ==
    InstallRequirement(
        key,
        UNION {ireq.specifier : ireq \in {r \in frontier : key_from_ireq(r) = key}},
        {}, FALSE, "", FALSE, TRUE)

\* repository.find_best_match, whichever repository cli has set up
repository_find_best_match(ireq) ==
    IF repository = "LocalRequirementsRepository"
    THEN local_find_best_match(existing_pins, index, ireq)
    ELSE pypi_find_best_match(index, ireq)

RoundMatches(frontier) ==
    [key \in FrontierKeys(frontier) |->
        repository_find_best_match(Combine(frontier, key))]

FailedKeys(matches) == {key \in DOMAIN matches : matches[key].error # "none"}

\* the closure after a round: the frontier's best matches replace its entries
RoundClosure(old, matches) ==
    [key \in DOMAIN old \cup DOMAIN matches |->
        IF key \in DOMAIN matches
        THEN get_ireq_version(matches[key].ireq)
        ELSE old[key]]

Members(cl) == {<<key, cl[key]>> : key \in DOMAIN cl}

\* repository.get_dependencies: what the index says the version requires
get_dependencies(idx, member) == {DepIReq(req) : req \in idx[member[1]][member[2]]}

\* the calls a set of find_best_match requests makes on the proxied repository
ProxiedBy(frontier, keys) ==
    IF repository = "LocalRequirementsRepository"
    THEN Cardinality({key \in keys :
             local_delegates(existing_pins, Combine(frontier, key))})
    ELSE 0

(***************************************************************************)
(* Inputs of cli.                                                          *)
(***************************************************************************)
MaxRounds == 3

DefaultMaxRounds == 10

MaxRoundsOptions == (1 .. MaxRounds) \cup {DefaultMaxRounds}

CliOptions ==
    [max_rounds : MaxRoundsOptions, upgrade : BOOLEAN, generate_hashes : BOOLEAN]

Constraint(name, specifier, markers) ==
    InstallRequirement(name, specifier, {}, FALSE, "", FALSE, markers)

\* the source files name a, and the same key under two spellings
FirstOfA ==
    {{}} \cup {{Constraint(n_a, {<<"==", 1>>}, markers)} : markers \in BOOLEAN}

SecondOfA == {{}, {Constraint(n_a, {}, TRUE)}, {Constraint(n_a, {<<"==", 2>>}, TRUE)}}

OfZI ==
    {{}, {Constraint(n_ZI, {<<"==", 1>>}, TRUE), Constraint(n_zi, {<<"==", 2>>}, TRUE)}}

OfB == {{}, {Constraint(n_b, {<<">=", 2>>}, TRUE)}}

SrcConstraintSets ==
    {a1 \cup a2 \cup z \cup b :
        a1 \in FirstOfA, a2 \in SecondOfA, z \in OfZI, b \in OfB}

NoDstFile == [exists |-> FALSE, ireqs |-> {}]

DstFile(ireqs) == [exists |-> TRUE, ireqs |-> ireqs]

DstFiles ==
    {NoDstFile, DstFile({ExistingPin(n_a, {<<"==", 1>>}, <<"==", 1>>)})}
    \cup {DstFile({ExistingPin(n_a, {<<">=", 1>>, <<"==", 2>>}, first),
                   ExistingPin(n_b, {<<">=", 1>>}, <<">=", 1>>)}) :
             first \in {<<">=", 1>>, <<"==", 2>>}}

InitCli ==
    /\ DiffIdle
    /\ CacheIdle
    /\ MergeIdle
    /\ TreeIdle
    /\ PypiIdle
    /\ DcIdle
    /\ LhIdle
    /\ FrIdle
    /\ GdIdle
    /\ index \in IndexOptions
    /\ existing_pins = <<>>
    /\ proxied_calls = 0
    /\ best_match_ireq = <<>>
    /\ best_match_result = <<>>
    /\ proxied_before = 0
    /\ local_ops = 0
    /\ cli_pc = "setup"
    /\ cli_options \in CliOptions
    /\ src_constraints \in SrcConstraintSets
    /\ dst_file \in DstFiles
    /\ constraints = {}
    /\ repository = "PyPIRepository"
    /\ their_constraints = {}
    /\ closure = <<>>
    /\ prev_closure = <<>>
    /\ current_round = 0
    /\ max_rounds = 0
    /\ rounds_run = 0
    /\ dependency_cache = {}
    /\ repository_calls = NoCalls
    /\ cli_error = "none"

localCallVars == <<best_match_ireq, best_match_result, proxied_before, local_ops>>

\* cli: the repository is proxied with the existing pins of the output file
cli_setup ==
    /\ cli_pc = "setup"
    /\ IF ~cli_options.upgrade /\ dst_file.exists
       THEN /\ existing_pins' =
                   PinsOf({ireq \in dst_file.ireqs : is_pinned_requirement(ireq)})
            /\ repository' = "LocalRequirementsRepository"
       ELSE UNCHANGED <<existing_pins, repository>>
    /\ cli_pc' = StepAfter("setup")
    /\ UNCHANGED <<index, proxied_calls, localCallVars>>
    /\ UNCHANGED <<cli_options, src_constraints, dst_file, constraints,
                   their_constraints, closure, prev_closure, current_round, max_rounds,
                   rounds_run, dependency_cache, repository_calls, cli_error>>
    /\ UNCHANGED notCliVars

\* cli: the source files are parsed, and the requirements whose markers do
\* not match are filtered out
cli_collect ==
    /\ cli_pc = "collect"
    /\ constraints' = {req \in src_constraints : req.markers}
    /\ cli_pc' = StepAfter("collect")
    /\ UNCHANGED repoVars
    /\ UNCHANGED <<cli_options, src_constraints, dst_file, repository,
                   their_constraints, closure, prev_closure, current_round, max_rounds,
                   rounds_run, dependency_cache, repository_calls, cli_error>>
    /\ UNCHANGED notCliVars

\* Resolver.check_constraints(constraints)
check_constraints ==
    /\ cli_pc = "check_constraints"
    /\ IF ConflictingPins(constraints) # {}
       THEN cli_pc' = "failed" /\ cli_error' = "VersionConflict"
       ELSE cli_pc' = StepAfter("check_constraints") /\ UNCHANGED cli_error
    /\ UNCHANGED repoVars
    /\ UNCHANGED <<cli_options, src_constraints, dst_file, constraints, repository,
                   their_constraints, closure, prev_closure, current_round, max_rounds,
                   rounds_run, dependency_cache, repository_calls>>
    /\ UNCHANGED notCliVars

\* resolver = Resolver(constraints, repository, ...); resolver.resolve(max_rounds)
resolve_begin ==
    /\ cli_pc = "resolve"
    /\ max_rounds' = resolve_max_rounds(cli_options)
    /\ current_round' = 1
    /\ cli_pc' = "round"
    /\ UNCHANGED repoVars
    /\ UNCHANGED <<cli_options, src_constraints, dst_file, constraints, repository,
                   their_constraints, closure, prev_closure, rounds_run,
                   dependency_cache, repository_calls, cli_error>>
    /\ UNCHANGED notCliVars

\* resolve: one round over the frontier
resolve_round ==
    /\ cli_pc = "round"
    /\ current_round <= max_rounds
    /\ rounds_run' = rounds_run + 1
    /\ \E frontier \in {constraints \cup their_constraints} :
       \E matches \in {RoundMatches(frontier)} :
          IF FailedKeys(matches) # {}
          THEN \* a find_best_match raises, after any of the others were made
               \E failing \in FailedKeys(matches) :
               \E asked \in SUBSET (DOMAIN matches \ {failing}) :
                   /\ repository_calls' =
                          [repository_calls EXCEPT
                              !.find_best_match = @ + Cardinality(asked) + 1]
                   /\ proxied_calls' =
                          proxied_calls + ProxiedBy(frontier, asked \cup {failing})
                   /\ cli_pc' = "failed"
                   /\ cli_error' = "NoCandidateFound"
                   /\ UNCHANGED <<their_constraints, closure, prev_closure,
                                  current_round, dependency_cache>>
          ELSE \E pinned \in {RoundClosure(closure, matches)} :
               \E misses \in {Members(pinned) \ dependency_cache} :
                  /\ closure' = pinned
                  /\ prev_closure' = closure
                  /\ dependency_cache' = dependency_cache \cup misses
                  /\ their_constraints' =
                         their_constraints
                         \cup UNION {get_dependencies(index, member) : member \in misses}
                  /\ repository_calls' =
                         [repository_calls EXCEPT
                             !.find_best_match = @ + Cardinality(DOMAIN matches),
                             !.get_dependencies = @ + Cardinality(misses)]
                  /\ proxied_calls' = proxied_calls + ProxiedBy(frontier, DOMAIN matches)
                  /\ IF pinned # closure
                     THEN current_round' = current_round + 1 /\ UNCHANGED cli_pc
                     ELSE cli_pc' = StepAfter("resolve") /\ UNCHANGED current_round
                  /\ UNCHANGED cli_error
    /\ UNCHANGED <<index, existing_pins, localCallVars>>
    /\ UNCHANGED <<cli_options, src_constraints, dst_file, constraints, repository,
                   max_rounds>>
    /\ UNCHANGED notCliVars

\* resolve: the round counter has passed max_rounds
resolve_did_not_converge ==
    /\ cli_pc = "round"
    /\ current_round > max_rounds
    /\ cli_pc' = "failed"
    /\ cli_error' = "DidNotConverge"
    /\ UNCHANGED repoVars
    /\ UNCHANGED <<cli_options, src_constraints, dst_file, constraints, repository,
                   their_constraints, closure, prev_closure, current_round, max_rounds,
                   rounds_run, dependency_cache, repository_calls>>
    /\ UNCHANGED notCliVars

\* if generate_hashes: hashes = resolver.resolve_hashes(results)
resolve_hashes ==
    /\ cli_pc = "resolve_hashes"
    /\ repository_calls' =
           IF cli_options.generate_hashes
           THEN [repository_calls EXCEPT !.get_hashes = @ + Cardinality(DOMAIN closure)]
           ELSE repository_calls
    /\ cli_pc' = StepAfter("resolve_hashes")
    /\ UNCHANGED repoVars
    /\ UNCHANGED <<cli_options, src_constraints, dst_file, constraints, repository,
                   their_constraints, closure, prev_closure, current_round, max_rounds,
                   rounds_run, dependency_cache, cli_error>>
    /\ UNCHANGED notCliVars

NextCli ==
    \/ cli_setup
    \/ cli_collect
    \/ check_constraints
    \/ resolve_begin
    \/ resolve_round
    \/ resolve_did_not_converge
    \/ resolve_hashes

SpecCli == InitCli /\ [][NextCli]_vars

\* cli is one thread of one process: a statement that can run does run
SpecCliLive == SpecCli /\ WF_vars(NextCli)

(***************************************************************************)
(* Properties of cli and the resolver.                                     *)
(***************************************************************************)
\* the constraints cli was given that have no markers, or markers that match
Applicable == {req \in src_constraints : req.markers}

\* two of the requirements have the same identity key and different == pins
Contradictory(reqs) ==
    \E c1 \in reqs : \E c2 \in reqs :
        /\ normalize_req_name(c1.name) = normalize_req_name(c2.name)
        /\ \E s1 \in c1.specifier : \E s2 \in c2.specifier :
               s1[1] = "==" /\ s2[1] = "==" /\ s1[2] # s2[2]

BeforeCheck == cli_pc \in {"setup", "collect", "check_constraints"}

Returned == cli_pc \in {"resolve_hashes", "done"}

\* a further round over the frontier would find every best match and pin
\* every key to the version it is pinned to
FixedPoint ==
    LET matches == RoundMatches(constraints \cup their_constraints)
    IN FailedKeys(matches) = {} /\ RoundClosure(closure, matches) = closure

C10_Bounded ==
    /\ rounds_run <= cli_options.max_rounds
    /\ Returned => rounds_run >= 1 /\ closure = prev_closure /\ FixedPoint
    /\ cli_error = "DidNotConverge" =>
           rounds_run = cli_options.max_rounds /\ closure # prev_closure

\* C10: resolve(max_rounds) always terminates: once begun it returns or
\* fails; it runs at most max_rounds rounds; it returns a closure only after a
\* round that changed nothing; and it fails as did-not-converge only when
\* max_rounds rounds have run and the last of them still changed something.
C10_ResolveTerminates ==
    /\ []C10_Bounded
    /\ (cli_pc = "round") ~> (Returned \/ cli_pc = "failed")

C10_Witness ==
    /\ cli_error = "DidNotConverge"
    /\ cli_options.max_rounds >= 2
    /\ rounds_run = cli_options.max_rounds
    /\ closure # prev_closure

\* a dependency requirement is satisfied by the closure: the closure pins
\* its key, to a version that its specifier accepts
SatisfiedByClosure(req) ==
    /\ normalize_req_name(req.name) \in DOMAIN closure
    /\ Contains(req.specifier, closure[normalize_req_name(req.name)])

\* C11: every closure that resolve returns has one pinned member per identity
\* key, every dependency requirement of every member is satisfied by that
\* key's one member, and resolve never returns a closure while two
\* requirements of its frontier pin one key to different exact versions.
C11_ReturnedClosureIsValid ==
    Returned =>
        /\ \A member \in Members(closure) :
               \A req \in index[member[1]][member[2]] : SatisfiedByClosure(req)
        /\ ~Contradictory(constraints \cup their_constraints)

(***************************************************************************)
(* sync.py: merge.                                                         *)
(***************************************************************************)
\* is_vcs_link(ireq) and not ireq.editable and not is_pinned_requirement(ireq)
merge_rejects_any_link(ireq) ==
    ireq.link # "" /\ ~ireq.editable /\ ~is_pinned_requirement(ireq)

merge_rejects(ireq) ==
    is_vcs_link(ireq) /\ ~ireq.editable /\ ~is_pinned_requirement(ireq)

merge_conflicts_never(ignore, kept, ireq) == FALSE

\* not ignore_conflicts, and the requirement kept for the key has another
\* specifier than ireq
merge_conflicts(ignore, kept, ireq) ==
    /\ ~ignore
    /\ key_from_ireq(ireq) \in DOMAIN kept
    /\ ireq.specifier # kept[key_from_ireq(ireq)].specifier

merge_keeps_first(kept, ireq) ==
    IF key_from_ireq(ireq) \in DOMAIN kept THEN kept ELSE Put(kept, key_from_ireq(ireq), ireq)

\* by_key[key] = ireq
merge_keeps(kept, ireq) == Put(kept, key_from_ireq(ireq), ireq)

(***************************************************************************)
(* Inputs of merge.                                                        *)
(***************************************************************************)
MaxStream == 4

ArtifactLinks == {"file:L"}

StreamEntries ==
    {InstallRequirement(n_a, {<<"==", 1>>}, {}, FALSE, "", FALSE, TRUE),
     InstallRequirement(n_a, {<<"==", 2>>}, {}, FALSE, "", FALSE, TRUE),
     InstallRequirement(n_A, {<<"==", 2>>}, {}, FALSE, "", FALSE, TRUE),
     InstallRequirement(n_b, {}, {}, FALSE, "git+L", FALSE, TRUE),
     InstallRequirement(n_b, {}, {}, TRUE, "git+L", FALSE, TRUE),
     InstallRequirement(n_b, {<<"==", 1>>}, {}, FALSE, "git+L", FALSE, TRUE),
     InstallRequirement(n_c, {}, {}, FALSE, "file:L", FALSE, TRUE)}

Streams == UNION {[1 .. n -> StreamEntries] : n \in 0 .. MaxStream}

InitMerge ==
    /\ DiffIdle
    /\ CacheIdle
    /\ RepoIdle
    /\ CliIdle
    /\ TreeIdle
    /\ PypiIdle
    /\ DcIdle
    /\ LhIdle
    /\ FrIdle
    /\ GdIdle
    /\ requirements \in Streams
    /\ ignore_conflicts \in BOOLEAN
    /\ by_key = <<>>
    /\ merge_pos = 1
    /\ merge_pc = "loop"
    /\ merge_error = <<>>
    /\ merge_result = {}

\* merge: one turn of the for loop
merge_step ==
    /\ merge_pc = "loop"
    /\ merge_pos <= Len(requirements)
    /\ LET ireq == requirements[merge_pos]
       IN IF merge_rejects(ireq)
          THEN /\ merge_pc' = "raised"
               /\ merge_error' = [type |-> "UnsupportedConstraint", carries |-> <<ireq>>]
               /\ UNCHANGED <<by_key, merge_pos>>
          ELSE IF merge_conflicts(ignore_conflicts, by_key, ireq)
          THEN /\ merge_pc' = "raised"
               /\ merge_error' =
                      [type |-> "IncompatibleRequirements",
                       carries |-> <<ireq, by_key[key_from_ireq(ireq)]>>]
               /\ UNCHANGED <<by_key, merge_pos>>
          ELSE /\ by_key' = merge_keeps(by_key, ireq)
               /\ merge_pos' = merge_pos + 1
               /\ UNCHANGED <<merge_pc, merge_error>>
    /\ UNCHANGED <<requirements, ignore_conflicts, merge_result>>
    /\ UNCHANGED notMergeVars

\* merge: return by_key.values()
merge_return ==
    /\ merge_pc = "loop"
    /\ merge_pos > Len(requirements)
    /\ merge_result' = {by_key[key] : key \in DOMAIN by_key}
    /\ merge_pc' = "returned"
    /\ UNCHANGED <<requirements, ignore_conflicts, by_key, merge_pos, merge_error>>
    /\ UNCHANGED notMergeVars

NextMerge == merge_step \/ merge_return

SpecMerge == InitMerge /\ [][NextMerge]_vars

(***************************************************************************)
(* Properties of merge.                                                    *)
(***************************************************************************)
StreamKey(i) == normalize_req_name(requirements[i].name)

StreamPins(i) ==
    {spec[2] : spec \in {x \in requirements[i].specifier : x[1] = "=="}}

\* the entries i < j are of one key and pin it to different exact versions
DifferentPins(i, j) ==
    /\ i < j
    /\ StreamKey(i) = StreamKey(j)
    /\ StreamPins(i) # {} /\ StreamPins(j) # {}
    /\ StreamPins(i) # StreamPins(j)

\* the entries i < j are of one key and have different specifiers
DifferentSpecifiers(i, j) ==
    /\ i < j
    /\ StreamKey(i) = StreamKey(j)
    /\ requirements[i].specifier # requirements[j].specifier

\* the loop reaches entry i: no entry before it differs from an earlier one
Reaches(i) ==
    ignore_conflicts
    \/ \A j \in 1 .. i - 1 : \A k \in 1 .. i - 1 : ~DifferentSpecifiers(j, k)

\* the stream holds two entries of one key with different exact pins
HoldsDifferentPins ==
    \E i \in DOMAIN requirements : \E j \in DOMAIN requirements : DifferentPins(i, j)

\* the entries merge rejects: version-control links, not editable, not pinned
RejectedEntries ==
    {i \in DOMAIN requirements :
        /\ requirements[i].link \in VcsLinks
        /\ ~requirements[i].editable
        /\ StreamPins(i) = {}}

MergeEnded == merge_pc \in {"returned", "raised"}

Raises(type) == merge_pc = "raised" /\ merge_error.type = type

\* the conflict error carries the entry the loop stopped at and an earlier
\* entry of the same key with another specifier
CarriesBoth ==
    /\ Len(merge_error.carries) = 2
    /\ merge_error.carries[1] = requirements[merge_pos]
    /\ \E i \in 1 .. merge_pos - 1 :
           /\ merge_error.carries[2] = requirements[i]
           /\ StreamKey(i) = StreamKey(merge_pos)
           /\ requirements[i].specifier # requirements[merge_pos].specifier

\* the original statement of C12: with ignore_conflicts false, a stream that
\* holds two entries of one key with different exact pins always ends in
\* IncompatibleRequirements carrying both, and in no merged result
C12_Original ==
    (MergeEnded /\ ~ignore_conflicts /\ HoldsDifferentPins) =>
        Raises("IncompatibleRequirements") /\ CarriesBoth /\ merge_result = {}

\* C12: merge(stream, ignore_conflicts=False) returns no merged result
\* whenever the stream holds two entries of one key with different exact
\* pins: it raises IncompatibleRequirements carrying the entry it stopped at
\* and the earlier entry of that key whose specifier differs, unless the loop
\* first met a requirement that merge rejects, which raises
\* UnsupportedConstraint instead.
C12_ConflictRaises ==
    (MergeEnded /\ ~ignore_conflicts /\ HoldsDifferentPins) =>
        /\ merge_pc = "raised"
        /\ merge_result = {}
        /\ IF \E i \in RejectedEntries : Reaches(i)
           THEN Raises("UnsupportedConstraint")
           ELSE Raises("IncompatibleRequirements") /\ CarriesBoth

C12_Witness ==
    /\ Raises("IncompatibleRequirements")
    /\ ~ignore_conflicts
    /\ merge_pos = 3
    /\ merge_error.carries[1].name = n_A
    /\ merge_error.carries[2].name = n_a

StreamKeys == {StreamKey(i) : i \in DOMAIN requirements}

\* the last entry of the key in stream order
LastOf(key) ==
    requirements[CHOOSE i \in DOMAIN requirements :
        /\ StreamKey(i) = key
        /\ \A j \in DOMAIN requirements : StreamKey(j) = key => j <= i]

\* C13: merge(stream, ignore_conflicts=True) never raises the conflict error;
\* what it returns is exactly one requirement for each identity key that
\* occurs in the stream, the last entry of that key in stream order; and it
\* does return when the stream holds no requirement that merge rejects.
C13_LastEntryWins ==
    (MergeEnded /\ ignore_conflicts) =>
        /\ ~Raises("IncompatibleRequirements")
        /\ RejectedEntries = {} => merge_pc = "returned"
        /\ merge_pc = "returned" =>
               /\ merge_result = {LastOf(key) : key \in StreamKeys}
               /\ Cardinality(merge_result) = Cardinality(StreamKeys)

C13_Witness ==
    /\ merge_pc = "returned"
    /\ ignore_conflicts
    /\ Len(requirements) = 3
    /\ HoldsDifferentPins
    /\ requirements[1].name = n_A
    /\ requirements[3].name = n_a
    /\ merge_result = {requirements[2], requirements[3]}

\* the direct links that are not version-control links, on requirements that
\* are neither editable nor pinned
UnpinnedArtifactEntries ==
    {i \in DOMAIN requirements :
        /\ requirements[i].link \in ArtifactLinks
        /\ ~requirements[i].editable
        /\ StreamPins(i) = {}}

\* the original statement of C14: merge rejects as unsupported every
\* non-version-control direct-link requirement that is neither editable nor
\* pinned, whatever ignore_conflicts is
C14_Original ==
    (MergeEnded /\ UnpinnedArtifactEntries # {}) => Raises("UnsupportedConstraint")

\* C14: merge() rejects as unsupported (UnsupportedConstraint, carrying the
\* requirement) every version-control link requirement that is neither
\* editable nor pinned and that its loop reaches, whatever ignore_conflicts
\* is, and rejects no other requirement: never a direct link that is not a
\* version-control link.  With ignore_conflicts true the loop reaches every
\* entry; with ignore_conflicts false it stops before an entry when two
\* entries before it have different specifiers for one key.
C14_RejectsUnpinnedVcsLinks ==
    MergeEnded =>
        /\ Raises("UnsupportedConstraint") =>
               /\ merge_pos \in RejectedEntries
               /\ merge_error.carries = <<requirements[merge_pos]>>
        /\ \A i \in RejectedEntries :
               Reaches(i) => Raises("UnsupportedConstraint") /\ merge_pos <= i
        /\ merge_pc = "returned" => RejectedEntries = {}

C14_Witness ==
    /\ Raises("UnsupportedConstraint")
    /\ merge_pos = 3
    /\ 1 \in UnpinnedArtifactEntries
    /\ requirements[2].editable
    /\ requirements[3].link \in VcsLinks

(***************************************************************************)
(* sync.py: dependency_tree, one turn of its while loop at a time.         *)
(***************************************************************************)
never_visited(v, visited) == FALSE

\* if v.key in dependencies: continue
already_visited(v, visited) == v.key \in visited

\* the root keys dependency_tree is asked for: installed or not
TreeRoots == {n_pip, n_a, n_b, k_zi, n_c}

InitTree ==
    /\ DiffIdle
    /\ CacheIdle
    /\ RepoIdle
    /\ CliIdle
    /\ MergeIdle
    /\ PypiIdle
    /\ DcIdle
    /\ LhIdle
    /\ FrIdle
    /\ GdIdle
    /\ tree_installed \in InstalledSets
    /\ tree_root \in TreeRoots
    /\ tree_queue = IF tree_root \in DOMAIN InstalledKeys(tree_installed)
                    THEN <<InstalledKeys(tree_installed)[tree_root]>>
                    ELSE <<>>
    /\ tree_dependencies = {}
    /\ tree_expanded = <<>>
    /\ tree_pc = "loop"

\* while queue: v = queue.popleft(); ...
dependency_tree_visit ==
    /\ tree_pc = "loop"
    /\ tree_queue # <<>>
    /\ LET v == Head(tree_queue)
       IN IF already_visited(v, tree_dependencies)
          THEN /\ tree_queue' = Tail(tree_queue)
               /\ UNCHANGED <<tree_dependencies, tree_expanded>>
          ELSE /\ tree_dependencies' = tree_dependencies \cup {v.key}
               /\ tree_queue' =
                      Tail(tree_queue)
                      \o RequiresToQueue(InstalledKeys(tree_installed), v.requires)
               /\ tree_expanded' =
                      Put(tree_expanded, v.key,
                          IF v.key \in DOMAIN tree_expanded
                          THEN tree_expanded[v.key] + 1 ELSE 1)
    /\ UNCHANGED <<tree_installed, tree_root, tree_pc>>
    /\ UNCHANGED notTreeVars

\* return dependencies
dependency_tree_return ==
    /\ tree_pc = "loop"
    /\ tree_queue = <<>>
    /\ tree_pc' = "returned"
    /\ UNCHANGED <<tree_installed, tree_root, tree_queue, tree_dependencies,
                   tree_expanded>>
    /\ UNCHANGED notTreeVars

NextTree == dependency_tree_visit \/ dependency_tree_return

SpecTree == InitTree /\ [][NextTree]_vars

\* the loop is one thread: a turn that can run does run
SpecTreeLive == SpecTree /\ WF_vars(NextTree)

(***************************************************************************)
(* Properties of dependency_tree.                                          *)
(***************************************************************************)
\* the installed distribution of the root key, if there is one
TreeRootDists == {d \in tree_installed : key_from_dist(d) = tree_root}

\* the keys of the distributions reachable from the root along requires
\* edges whose target is installed in a version the specifier accepts
TreeReachableKeys == {d.key : d \in ReachableFrom(tree_installed, TreeRootDists)}

\* C15: dependency_tree(installed, root) returns exactly the set of keys
\* reachable from root (root included when it is installed) along requires
\* edges whose target is installed and whose installed version satisfies the
\* requiring package's specifier; it returns the empty set when root is not
\* installed.
C15_ReturnsReachableKeys ==
    tree_pc = "returned" =>
        /\ tree_dependencies = TreeReachableKeys
        /\ tree_dependencies = dependency_tree(InstalledKeys(tree_installed), tree_root)
        /\ TreeRootDists = {} => tree_dependencies = {}
        /\ \A d \in TreeRootDists : d.key \in tree_dependencies

C15_Witness ==
    /\ tree_pc = "returned"
    /\ tree_root = n_pip
    /\ Cardinality(tree_dependencies) = 3
    /\ \E d \in tree_installed :
           /\ d.key \notin tree_dependencies
           /\ \E u \in tree_installed :
                  /\ u.key \in tree_dependencies
                  /\ \E i \in DOMAIN u.requires : key_from_req(u.requires[i]) = key_from_dist(d)

C16_ExpandedOnce == \A key \in DOMAIN tree_expanded : tree_expanded[key] <= 1

\* C16: dependency_tree terminates on every finite installed set, cyclic
\* requires graphs included, and expands each installed key at most once.
C16_Terminates ==
    /\ []C16_ExpandedOnce
    /\ <>(tree_pc = "returned")

\* a and b require each other, both were expanded, and the walk has returned
C16_Witness ==
    /\ tree_pc = "returned"
    /\ \E a \in tree_installed : \E b \in tree_installed :
           /\ a # b
           /\ RequiresEdge(a, b) /\ RequiresEdge(b, a)
           /\ a.key \in DOMAIN tree_expanded /\ b.key \in DOMAIN tree_expanded

(***************************************************************************)
(* repositories/pypi.py: one PyPIRepository over a sequence of calls.      *)
(* __init__ starts it with an empty candidates memo; find_best_match and   *)
(* get_hashes reach the finder through find_all_candidates only.           *)
(***************************************************************************)
memo_never_holds(memo, req_name) == FALSE

\* req_name in self._available_candidates_cache
memo_holds(memo, req_name) == req_name \in DOMAIN memo

\* find_all_candidates: the memo after the call
memo_after(memo, idx, req_name) ==
    IF memo_holds(memo, req_name)
    THEN memo
    ELSE [n \in DOMAIN memo \cup {req_name} |->
             IF n = req_name THEN find_all_candidates(idx, req_name) ELSE memo[n]]

\* find_all_candidates: the names the call asks the finder for
finder_asked_by(memo, req_name) ==
    IF memo_holds(memo, req_name) THEN {} ELSE {req_name}

\* the count of finder queries after one more for each name asked
count_queries(queries, asked) ==
    [n \in DOMAIN queries \cup asked |->
        (IF n \in DOMAIN queries THEN queries[n] ELSE 0) + (IF n \in asked THEN 1 ELSE 0)]

\* what get_hashes returns or raises
Hashes(hashes) == [error |-> "none", hashes |-> hashes]

HashError(error) == [error |-> error, hashes |-> {}]

\* _get_file_hash of the file of a candidate, or of a link
candidate_hash(key, version) == <<"sha256", key, version>>

link_hash(link) == <<"sha256", link>>

\* check_is_hashable(ireq) raises ValueError
not_hashable(ireq) == ireq.editable \/ is_vcs_link(ireq) \/ ~is_pinned_requirement(ireq)

\* get_hashes up to the candidate lookup: the requirements it answers without one
hashes_without_candidates(ireq) ==
    IF ireq.editable THEN Hashes({})
    ELSE IF not_hashable(ireq) THEN HashError("ValueError")
    ELSE Hashes({link_hash(ireq.link)})

needs_candidates_to_hash(ireq) ==
    ~ireq.editable /\ ~not_hashable(ireq) /\ ireq.link = ""

\* get_hashes from the candidate lookup on; matching_versions[0] of an empty
\* list raises IndexError
hashes_among(ireq, all_candidates) ==
    LET matching == {v \in all_candidates : Contains(ireq.specifier, v)}
    IN IF matching = {}
       THEN HashError("IndexError")
       ELSE Hashes({candidate_hash(key_from_ireq(ireq), v) : v \in matching})

(***************************************************************************)
(* Inputs of the PyPIRepository.                                           *)
(***************************************************************************)
MaxPypiOps == 2

\* the requirements the repository is called with
PypiRequests ==
    {InstallRequirement(n_a, {}, {}, FALSE, "", FALSE, TRUE),
     InstallRequirement(n_A, {<<">=", 1>>}, {"x"}, FALSE, "", TRUE, TRUE),
     InstallRequirement(n_a, {<<"<", 2>>}, {}, FALSE, "", FALSE, TRUE),
     InstallRequirement(n_a, {<<"<", 1>>}, {}, FALSE, "", FALSE, TRUE),
     InstallRequirement(n_c, {}, {}, FALSE, "", FALSE, TRUE),
     InstallRequirement(n_b, {}, {}, TRUE, "git+L", FALSE, TRUE),
     InstallRequirement(n_c, {}, {}, TRUE, "file:L", FALSE, TRUE),
     InstallRequirement(n_b, {}, {}, FALSE, "git+L", FALSE, TRUE),
     InstallRequirement(n_a, {}, {}, FALSE, "file:L", FALSE, TRUE),
     InstallRequirement(n_a, {<<"==", 1>>}, {}, FALSE, "", FALSE, TRUE),
     InstallRequirement(n_ZI, {<<"==", 1>>}, {}, FALSE, "file:L", FALSE, TRUE),
     InstallRequirement(n_c, {<<"==", 1>>}, {}, FALSE, "", FALSE, TRUE)}

\* the cache file a previous run left behind
PersistedCache == json_dump(1, [n \in {n_a} |-> [v \in {<<"1">>} |-> <<"d">>]])

InitPypi ==
    /\ DiffIdle
    /\ CliIdle
    /\ MergeIdle
    /\ TreeIdle
    /\ DcIdle
    /\ LhIdle
    /\ FrIdle
    /\ GdIdle
    /\ \/ file_exists = FALSE /\ file_content = <<>>
       \/ file_exists = TRUE /\ file_content = PersistedCache
    /\ cache_loaded = FALSE
    /\ cache_map = <<>>
    /\ cache_pc = "off"
    /\ write_doc = <<>>
    /\ write_pos = 0
    /\ cache_error = "none"
    /\ error_path = <<>>
    /\ last_op = "none"
    /\ read_content = <<>>
    /\ old_content = file_content
    /\ set_log = <<>>
    /\ log_valid = FALSE
    /\ cache_ops = 0
    /\ index \in IndexOptions
    /\ existing_pins = <<>>
    /\ proxied_calls = 0
    /\ best_match_ireq = <<>>
    /\ best_match_result = <<>>
    /\ proxied_before = 0
    /\ local_ops = 0
    /\ available_candidates_cache = <<>>
    /\ finder_queries = <<>>
    /\ finder_asked = {}
    /\ pypi_call = <<>>
    /\ pypi_result = <<>>
    /\ pypi_ops = 0

\* PyPIRepository.find_best_match(ireq)
PyPIRepository_find_best_match(ireq) ==
    /\ pypi_ops < MaxPypiOps
    /\ pypi_ops' = pypi_ops + 1
    /\ pypi_call' = [method |-> "find_best_match", ireq |-> ireq]
    /\ IF is_own_best_match(ireq)
       THEN /\ pypi_result' = Found(ireq)
            /\ finder_asked' = {}
            /\ UNCHANGED <<available_candidates_cache, finder_queries>>
       ELSE /\ finder_asked' = finder_asked_by(available_candidates_cache, ireq.name)
            /\ finder_queries' = count_queries(finder_queries, finder_asked')
            /\ available_candidates_cache' =
                   memo_after(available_candidates_cache, index, ireq.name)
            /\ pypi_result' =
                   best_match_among(ireq, available_candidates_cache'[ireq.name])
    /\ UNCHANGED notPypiVars

\* PyPIRepository.get_hashes(ireq)
PyPIRepository_get_hashes(ireq) ==
    /\ pypi_ops < MaxPypiOps
    /\ pypi_ops' = pypi_ops + 1
    /\ pypi_call' = [method |-> "get_hashes", ireq |-> ireq]
    /\ IF ~needs_candidates_to_hash(ireq)
       THEN /\ pypi_result' = hashes_without_candidates(ireq)
            /\ finder_asked' = {}
            /\ UNCHANGED <<available_candidates_cache, finder_queries>>
       ELSE /\ finder_asked' = finder_asked_by(available_candidates_cache, ireq.name)
            /\ finder_queries' = count_queries(finder_queries, finder_asked')
            /\ available_candidates_cache' =
                   memo_after(available_candidates_cache, index, ireq.name)
            /\ pypi_result' = hashes_among(ireq, available_candidates_cache'[ireq.name])
    /\ UNCHANGED notPypiVars

NextPypi ==
    \/ \E ireq \in PypiRequests : PyPIRepository_find_best_match(ireq)
    \/ \E ireq \in PypiRequests : PyPIRepository_get_hashes(ireq)

SpecPypi == InitPypi /\ [][NextPypi]_vars

(***************************************************************************)
(* Properties of PyPIRepository.                                           *)
(***************************************************************************)
LastCallIs(method) == pypi_call # <<>> /\ pypi_call.method = method

\* the candidates the index knows of the name of the last call's requirement
KnownCandidates ==
    LET key == key_from_ireq(pypi_call.ireq)
    IN IF key \in DOMAIN index THEN DOMAIN index[key] ELSE {}

\* those of them that satisfy its specifier
MatchingCandidates == {v \in KnownCandidates : Contains(pypi_call.ireq.specifier, v)}

\* the last call was a find_best_match that went on to look candidates up
LookedUp == LastCallIs("find_best_match") /\ ~is_own_best_match(pypi_call.ireq)

C18_RaisesExactlyWhenNoneMatches ==
    LookedUp =>
        /\ (pypi_result.error = "NoCandidateFound") <=> (MatchingCandidates = {})
        /\ pypi_result.error \in {"none", "NoCandidateFound"}
        /\ MatchingCandidates = {} =>
               /\ pypi_result.ireq = pypi_call.ireq
               /\ pypi_result.candidates_tried = KnownCandidates

\* the index has candidates of the name, none matches, and the error has them all
C18_Witness ==
    /\ LookedUp
    /\ KnownCandidates # {}
    /\ MatchingCandidates = {}
    /\ pypi_result.error = "NoCandidateFound"
    /\ pypi_result.candidates_tried = KnownCandidates

\* the requirement of the last call has a link that is not a version-control link
IsArtifactLink == pypi_call.ireq.link # "" /\ ~is_vcs_link(pypi_call.ireq)

\* the last call returned its argument and asked the finder for nothing
ReturnedUnchanged ==
    /\ pypi_result = Found(pypi_call.ireq)
    /\ finder_asked = {}
    /\ pypi_ops = 1 => finder_queries = <<>>

\* C19 as the specification states it: every editable requirement and every
\* direct-link requirement is returned unchanged, without a candidate lookup.
C19_Original ==
    (LastCallIs("find_best_match")
        /\ (pypi_call.ireq.editable \/ pypi_call.ireq.link # "")) => ReturnedUnchanged

\* C19: find_best_match returns every editable requirement and every
\* version-control link requirement unchanged, without asking the index for
\* candidates; a direct link to an artifact that is not editable is looked up
\* like a requirement without a link, and what comes back is a pin of a
\* matching candidate without the link, or NoCandidateFound.
C19_ReturnsEditablesAndVcsLinks ==
    LastCallIs("find_best_match") =>
        /\ (pypi_call.ireq.editable \/ is_vcs_link(pypi_call.ireq)) => ReturnedUnchanged
        /\ (IsArtifactLink /\ ~pypi_call.ireq.editable) =>
               IF MatchingCandidates = {}
               THEN pypi_result.error = "NoCandidateFound"
               ELSE /\ pypi_result.error = "none"
                    /\ pypi_result.ireq.link = ""
                    /\ \E v \in MatchingCandidates :
                           pypi_result.ireq.specifier = {<<"==", v>>}

\* the first call on the repository was given a version-control link that is
\* not editable, of a package the index has candidates of
C19_Witness ==
    /\ LastCallIs("find_best_match")
    /\ pypi_ops = 1
    /\ ~pypi_call.ireq.editable
    /\ is_vcs_link(pypi_call.ireq)
    /\ KnownCandidates # {}
    /\ ReturnedUnchanged

\* what the last call gives when it is worked out from the index and its
\* argument alone
AnswerFromIndex ==
    IF pypi_call.method = "find_best_match"
    THEN pypi_find_best_match(index, pypi_call.ireq)
    ELSE IF needs_candidates_to_hash(pypi_call.ireq)
         THEN hashes_among(pypi_call.ireq, find_all_candidates(index, pypi_call.ireq.name))
         ELSE hashes_without_candidates(pypi_call.ireq)

AskedAtMostOnce == \A n \in DOMAIN finder_queries : finder_queries[n] <= 1

\* the dependency cache stays unopened: no operation of it has run, nothing is
\* loaded from its file
CacheUntouched == cache_ops = 0 /\ last_op = "none" /\ ~cache_loaded

OperatorTokens == {"==", ">=", "<"}

\* Requirement.parse(dep_name).name: the characters before the specifier
RECURSIVE name_from_req_string(_)
name_from_req_string(dep_name) ==
    IF dep_name = <<>> \/ Head(dep_name) \in OperatorTokens
    THEN <<>>
    ELSE <<Head(dep_name)>> \o name_from_req_string(Tail(dep_name))

key_from_req_string_raw(dep_name) == name_from_req_string(dep_name)

\* key_from_req(Requirement.parse(dep_name))
key_from_req_string(dep_name) == normalize_req_name(name_from_req_string(dep_name))

name_from_ireq(ireq) == ireq.name

\* the requirement pip builds from a line: its extras are a set, whatever
\* order the line gave them in
install_req(name, specifier, extras_given, editable, link) ==
    CacheIReq(name, specifier, {extras_given[i] : i \in DOMAIN extras_given},
              editable, link)

\* lookup_table(values) over (key, value) tuples: key -> the set of its values
lookup_table(pairs) ==
    [k \in {pair[1] : pair \in pairs} |-> {pair[2] : pair \in {q \in pairs : q[1] = k}}]

\* cache_key_names: a dict, so the last requirement of a cache key names it
cache_key_names(ireqs) ==
    [k \in {as_cache_key(ireqs[i]) : i \in DOMAIN ireqs} |->
        LET last == CHOOSE i \in DOMAIN ireqs :
                        /\ as_cache_key(ireqs[i]) = k
                        /\ \A j \in DOMAIN ireqs : as_cache_key(ireqs[j]) = k => j <= i
        IN name_from_ireq(ireqs[last])]

InCache(cache, key) == key.name \in DOMAIN cache /\ key.version \in DOMAIN cache[key.name]

\* the (child key, parent name) tuples reverse_dependencies hands to lookup_table
reverse_pairs(cache, ireqs) ==
    LET names == cache_key_names(ireqs) IN
    UNION {{<<key_from_req_string(cache[k.name][k.version][i]), names[k]>> :
                i \in DOMAIN cache[k.name][k.version]} : k \in DOMAIN names}

\* what a call on the cache returns or raises
DcReturn(value) == [error |-> "none", value |-> value]

DcRaise(error) == [error |-> error, value |-> <<>>]

\* get's default
None == <<"None">>

(***************************************************************************)
(* Inputs of the cache in use.                                             *)
(***************************************************************************)
MaxDcOps == 3

req_a1 == install_req(n_a, {<<"==", 1>>}, <<>>, FALSE, "")

req_a1_xy == install_req(n_a, {<<"==", 1>>}, <<"x", "y">>, FALSE, "")

req_A1_yx == install_req(n_A, {<<"==", 1>>}, <<"y", "x">>, FALSE, "")

req_a1_x == install_req(n_a, {<<"==", 1>>}, <<"x">>, FALSE, "")

req_b_unpinned == install_req(n_b, {}, <<>>, FALSE, "")

req_b_vcs == install_req(n_b, {}, <<>>, FALSE, "git+L")

req_b_editable == install_req(n_b, {<<">=", 1>>}, <<"x">>, TRUE, "git+L")

req_a1_editable == install_req(n_a, {<<"==", 1>>}, <<>>, TRUE, "file:L")

req_ZI1_link == install_req(n_ZI, {<<"==", 1>>}, <<>>, FALSE, "file:L")

DcIReqs ==
    {req_a1, req_a1_xy, req_A1_yx, req_a1_x, req_b_unpinned, req_b_vcs,
     req_b_editable, req_a1_editable, req_ZI1_link}

dep_b == <<"b">>

dep_ZI == <<"Z", "_", "I", ">=", "1">>

\* the dependency lists a requirement may be set to
DcDepLists(ireq) ==
    IF key_from_ireq(ireq) = n_a
    THEN IF ireq.extras = {} THEN {<<dep_b>>} ELSE {<<dep_b, dep_ZI>>}
    ELSE IF key_from_ireq(ireq) = n_b THEN {<<dep_ZI>>} ELSE {<<>>}

\* the lists reverse_dependencies is given
DcIReqLists ==
    {<<req_a1, req_b_vcs, req_ZI1_link>>,
     <<req_a1_xy, req_b_editable>>,
     <<req_a1, req_A1_yx>>,
     <<req_b_unpinned>>}

\* the cache file an earlier run left: a==1 requires b
DcPersisted == json_dump(1, [n \in {n_a} |-> [v \in {<<"1">>} |-> <<dep_b>>]])

\* what a requirement is, apart from how it is written: key, pinned version,
\* set of extras, and for an editable its link
Identity(ireq) ==
    <<key_from_ireq(ireq),
      IF HasVersion(ireq) THEN get_ireq_version(ireq) ELSE 0,
      ireq.extras, ireq.editable, IF ireq.editable THEN ireq.link ELSE "">>

InitDc ==
    /\ DiffIdle
    /\ RepoIdle
    /\ CliIdle
    /\ MergeIdle
    /\ TreeIdle
    /\ PypiIdle
    /\ LhIdle
    /\ FrIdle
    /\ GdIdle
    /\ \/ file_exists = FALSE /\ file_content = <<>> /\ dc_log = <<>>
       \/ /\ file_exists = TRUE
          /\ file_content = DcPersisted
          /\ dc_log = Put(<<>>, Identity(req_a1), [ireq |-> req_a1, deps |-> <<dep_b>>])
    /\ cache_loaded = FALSE
    /\ cache_map = <<>>
    /\ cache_pc = "idle"
    /\ write_doc = <<>>
    /\ write_pos = 0
    /\ cache_error = "none"
    /\ error_path = <<>>
    /\ last_op = "none"
    /\ read_content = <<>>
    /\ old_content = file_content
    /\ set_log = <<>>
    /\ log_valid = FALSE
    /\ cache_ops = 0
    /\ dc_call = <<>>
    /\ dc_result = <<>>
    /\ dc_before = <<>>
    /\ dc_ops = 0

\* self.cache: the dictionary, loaded from the file on first use
LoadedCache == IF cache_loaded THEN cache_map ELSE read_cache_result.deps

DcBefore == [cache |-> LoadedCache, exists |-> file_exists, content |-> file_content]

DcFrame ==
    UNCHANGED <<cache_pc, write_doc, write_pos, cache_error, error_path, last_op,
                read_content, old_content, set_log, log_valid, cache_ops>>

\* DependencyCache.__setitem__(ireq, values)
DependencyCache_setitem(ireq, values) ==
    /\ dc_ops < MaxDcOps
    /\ dc_ops' = dc_ops + 1
    /\ dc_call' = [method |-> "set", ireq |-> ireq, values |-> values, ireqs |-> <<>>]
    /\ dc_before' = DcBefore
    /\ \E key \in {as_cache_key(ireq)} :
        IF ~key.ok
        THEN /\ dc_result' = DcRaise("ValueError")
             /\ UNCHANGED <<file_exists, file_content, cache_loaded, cache_map, dc_log>>
        ELSE /\ cache_loaded' = TRUE
             /\ cache_map' = SetEntry(LoadedCache, key.name, key.version, values)
             /\ file_exists' = TRUE
             /\ file_content' = json_dump(1, strip_unpinned_and_editables(cache_map'))
             /\ dc_log' = Put(dc_log, Identity(ireq), [ireq |-> ireq, deps |-> values])
             /\ dc_result' = DcReturn(None)
    /\ DcFrame
    /\ UNCHANGED notDcVars

\* DependencyCache.get(ireq)
DependencyCache_get(ireq) ==
    /\ dc_ops < MaxDcOps
    /\ dc_ops' = dc_ops + 1
    /\ dc_call' = [method |-> "get", ireq |-> ireq, values |-> <<>>, ireqs |-> <<>>]
    /\ dc_before' = DcBefore
    /\ \E key \in {as_cache_key(ireq)} :
        IF ~key.ok
        THEN /\ dc_result' = DcRaise("ValueError")
             /\ UNCHANGED <<cache_loaded, cache_map>>
        ELSE /\ cache_loaded' = TRUE
             /\ cache_map' = LoadedCache
             /\ dc_result' = IF InCache(LoadedCache, key)
                             THEN DcReturn(LoadedCache[key.name][key.version])
                             ELSE DcReturn(None)
    /\ UNCHANGED <<file_exists, file_content, dc_log>>
    /\ DcFrame
    /\ UNCHANGED notDcVars

\* DependencyCache.reverse_dependencies(ireqs)
DependencyCache_reverse_dependencies(ireqs) ==
    /\ dc_ops < MaxDcOps
    /\ dc_ops' = dc_ops + 1
    /\ dc_call' = [method |-> "reverse_dependencies", ireq |-> <<>>, values |-> <<>>,
                   ireqs |-> ireqs]
    /\ dc_before' = DcBefore
    /\ IF \E i \in DOMAIN ireqs : ~as_cache_key(ireqs[i]).ok
       THEN /\ dc_result' = DcRaise("ValueError")
            /\ UNCHANGED <<cache_loaded, cache_map>>
       ELSE /\ cache_loaded' = TRUE
            /\ cache_map' = LoadedCache
            /\ dc_result' =
                   IF \E i \in DOMAIN ireqs : ~InCache(LoadedCache, as_cache_key(ireqs[i]))
                   THEN DcRaise("KeyError")
                   ELSE DcReturn(lookup_table(reverse_pairs(LoadedCache, ireqs)))
    /\ UNCHANGED <<file_exists, file_content, dc_log>>
    /\ DcFrame
    /\ UNCHANGED notDcVars

NextDc ==
    \/ \E ireq \in DcIReqs : \E values \in DcDepLists(ireq) :
           DependencyCache_setitem(ireq, values)
    \/ \E ireq \in DcIReqs : DependencyCache_get(ireq)
    \/ \E ireqs \in DcIReqLists : DependencyCache_reverse_dependencies(ireqs)

SpecDc == InitDc /\ [][NextDc]_vars

(***************************************************************************)
(* Properties of the cache in use.                                         *)
(***************************************************************************)
DcCallIs(method) == dc_call # <<>> /\ dc_call.method = method

\* two requirements of one name and version, alike but for their extras
SameButExtras(r1, r2) ==
    /\ key_from_ireq(r1) = key_from_ireq(r2)
    /\ PinnedVersions(r1) = PinnedVersions(r2)
    /\ r1.editable = r2.editable
    /\ r1.editable => r1.link = r2.link

\* what get returns when entries are kept by identity
HeldFor(ireq) ==
    IF Identity(ireq) \in DOMAIN dc_log THEN dc_log[Identity(ireq)].deps ELSE None

\* C21: as_cache_key gives two requirements of one name and version the same
\* key exactly when their sets of extras are equal, and get returns for a
\* requirement what was last set for its name, version and set of extras, never
\* what was set under another set of extras.
C21_ExtrasKeyedApart ==
    (DcCallIs("get") /\ dc_result.error = "none") =>
        /\ \A other \in DcIReqs :
               (as_cache_key(other).ok /\ SameButExtras(dc_call.ireq, other)) =>
                   ((as_cache_key(other) = as_cache_key(dc_call.ireq))
                        <=> (other.extras = dc_call.ireq.extras))
        /\ dc_result.value = HeldFor(dc_call.ireq)

\* get is asked with another spelling of the name and of the extras than set
\* was, and returns what was set, while an entry of the same name and version
\* with other extras holds another list
C21_Witness ==
    /\ DcCallIs("get")
    /\ dc_call.ireq.extras = {"x", "y"}
    /\ Identity(dc_call.ireq) \in DOMAIN dc_log
    /\ dc_log[Identity(dc_call.ireq)].ireq # dc_call.ireq
    /\ dc_result = DcReturn(dc_log[Identity(dc_call.ireq)].deps)
    /\ \E id \in DOMAIN dc_log :
           /\ SameButExtras(dc_log[id].ireq, dc_call.ireq)
           /\ dc_log[id].ireq.extras # dc_call.ireq.extras
           /\ dc_log[id].deps # dc_result.value

\* the cache file holds an entry under the cache key of the requirement
FileHolds(ireq) ==
    /\ as_cache_key(ireq).ok
    /\ \E i \in DOMAIN file_content :
           /\ file_content[i].t = "entry"
           /\ file_content[i].name = as_cache_key(ireq).name
           /\ file_content[i].version = as_cache_key(ireq).version

\* get(ireq) on the cache as it is now returns the list the last call set
HeldInMemory ==
    /\ dc_result.error = "none"
    /\ as_cache_key(dc_call.ireq).ok
    /\ CacheGet(cache_map, dc_call.ireq) = [found |-> TRUE, deps |-> dc_call.values]

\* the last call left the cache and its file as they were
DcUntouched ==
    /\ LoadedCache = dc_before.cache
    /\ file_exists = dc_before.exists
    /\ file_content = dc_before.content

\* C22 as the specification states it: after set(r, deps) for an unpinned, an
\* editable or a direct-link requirement, get(r) returns deps and the cache
\* file holds no entry for r.
C22_Original ==
    (DcCallIs("set")
        /\ (~HasVersion(dc_call.ireq) \/ dc_call.ireq.editable \/ dc_call.ireq.link # ""))
    => (HeldInMemory /\ ~FileHolds(dc_call.ireq))

\* C22: after set(r, deps) for an editable requirement, or for an unpinned
\* requirement that has a link, get(r) returns deps, the entry being held under
\* a sentinel key, and the cache file holds no entry for r.  For an unpinned
\* requirement without a link set raises ValueError and holds nothing.  A
\* pinned requirement that is not editable, with a link or without, is held
\* and written to the file.
C22_HeldInMemoryOnly ==
    DcCallIs("set") =>
        IF dc_call.ireq.editable \/ (~HasVersion(dc_call.ireq) /\ dc_call.ireq.link # "")
        THEN /\ HeldInMemory
             /\ HasSentinel(as_cache_key(dc_call.ireq).version)
             /\ ~FileHolds(dc_call.ireq)
        ELSE IF ~HasVersion(dc_call.ireq)
        THEN /\ dc_result = DcRaise("ValueError")
             /\ DcUntouched
        ELSE /\ HeldInMemory
             /\ FileHolds(dc_call.ireq)

\* an unpinned link requirement was set beside a pinned one: the file has
\* the entry of the pinned one only
C22_Witness ==
    /\ DcCallIs("set")
    /\ ~dc_call.ireq.editable
    /\ ~HasVersion(dc_call.ireq)
    /\ HeldInMemory
    /\ ~FileHolds(dc_call.ireq)
    /\ \E i \in DOMAIN file_content : file_content[i].t = "entry"
    /\ \E name \in DOMAIN cache_map : \E version \in DOMAIN cache_map[name] :
           InString(":EDITABLE:", version)

\* the requirements the last reverse_dependencies was given
GivenIReqs == {dc_call.ireqs[i] : i \in DOMAIN dc_call.ireqs}

\* the dependency list the cache holds for a requirement that was set
CachedDeps(ireq) == dc_log[Identity(ireq)].deps

AllHeld == \A r \in GivenIReqs : as_cache_key(r).ok /\ Identity(r) \in DOMAIN dc_log

\* the given requirements, by name, whose cached list has a dependency on k
Dependents(k) ==
    {r.name : r \in {q \in GivenIReqs :
        \E i \in DOMAIN CachedDeps(q) :
            normalize_req_name(name_from_req_string(CachedDeps(q)[i])) = k}}

PackageKeys == {n_a, n_b, n_c, k_zi}

\* C23: reverse_dependencies maps a package key k to exactly the given
\* requirements, by name, whose cached dependency list has a dependency on k,
\* and has no entry for a key that none of them depends on; it fails with
\* KeyError when the cache lacks one of the requirements, calls no repository
\* and leaves the cache and its file as they were.
C23_ReverseDependencies ==
    DcCallIs("reverse_dependencies") =>
        /\ DcUntouched
        /\ RepoIdle /\ PypiIdle
        /\ dc_result.error = "none" <=> AllHeld
        /\ (\E r \in GivenIReqs : as_cache_key(r).ok) =>
               (dc_result.error = "KeyError" <=> ~AllHeld)
        /\ dc_result.error = "none" =>
               /\ DOMAIN dc_result.value \subseteq PackageKeys
               /\ \A k \in PackageKeys :
                      IF k \in DOMAIN dc_result.value
                      THEN dc_result.value[k] = Dependents(k) /\ Dependents(k) # {}
                      ELSE Dependents(k) = {}

\* three requirements were given; one key has a dependent whose dependency
\* was spelled otherwise than the key
C23_Witness ==
    /\ DcCallIs("reverse_dependencies")
    /\ dc_result.error = "none"
    /\ Cardinality(GivenIReqs) = 3
    /\ k_zi \in DOMAIN dc_result.value
    /\ n_b \in DOMAIN dc_result.value
    /\ dc_result.value[k_zi] = {n_b}

\* C24: the table reverse_dependencies returns has an entry for every
\* requirement it was given, empty for one that none of them depends on.
C24_EntryForEveryRequirement ==
    (DcCallIs("reverse_dependencies") /\ dc_result.error = "none") =>
        \A r \in GivenIReqs :
            /\ key_from_ireq(r) \in DOMAIN dc_result.value
            /\ Dependents(key_from_ireq(r)) = {} => dc_result.value[key_from_ireq(r)] = {}

(***************************************************************************)
(* repositories/local.py: get_hashes of a LocalRequirementsRepository      *)
(* around a PyPIRepository.                                                *)
(***************************************************************************)
\* PyPIRepository.get_hashes
pypi_get_hashes(idx, ireq) ==
    IF needs_candidates_to_hash(ireq)
    THEN hashes_among(ireq, find_all_candidates(idx, ireq.name))
    ELSE hashes_without_candidates(ireq)

\* pinned_ireq and ireq_satisfied_by_existing_pin(ireq, pinned_ireq) and
\* pinned_ireq.has_hash_options
local_answers_hashes(pins, hashes, ireq) ==
    LET key == key_from_ireq(ireq)
    IN /\ key \in DOMAIN pins
       /\ ireq_satisfied_by_existing_pin(ireq, pins[key])
       /\ hashes[key] # {}

\* LocalRequirementsRepository.get_hashes
local_get_hashes(pins, hashes, idx, ireq) ==
    IF not_hashable(ireq)
    THEN HashError("ValueError")
    ELSE IF local_answers_hashes(pins, hashes, ireq)
    THEN Hashes(hashes[key_from_ireq(ireq)])
    ELSE pypi_get_hashes(idx, ireq)

(***************************************************************************)
(* Inputs of get_hashes.                                                   *)
(***************************************************************************)
MaxHashOps == 2

\* the hashes of the lines of the output file: a line has --hash options or not
PinHashChoices(pins) ==
    {[key \in DOMAIN pins |-> IF key \in hashed THEN {<<"sha256", key, "pinned">>} ELSE {}] :
        hashed \in SUBSET DOMAIN pins}

HashRequests ==
    {InstallRequirement(n_a, {<<"==", 1>>}, {}, FALSE, "", FALSE, TRUE),
     InstallRequirement(n_A, {<<"==", MaxVersion>>}, {"x"}, FALSE, "", FALSE, TRUE),
     InstallRequirement(n_ZI, {<<"==", 1>>}, {}, FALSE, "", FALSE, TRUE),
     InstallRequirement(n_c, {<<"==", 1>>}, {}, FALSE, "", FALSE, TRUE),
     InstallRequirement(n_a, {}, {}, FALSE, "", FALSE, TRUE),
     InstallRequirement(n_a, {}, {}, TRUE, "git+L", FALSE, TRUE),
     InstallRequirement(n_b, {}, {}, TRUE, "file:L", FALSE, TRUE),
     InstallRequirement(n_b, {}, {}, FALSE, "git+L", FALSE, TRUE),
     InstallRequirement(n_a, {<<"==", 1>>}, {}, FALSE, "file:L", FALSE, TRUE)}

InitLocalHashes ==
    /\ DiffIdle
    /\ CacheIdle
    /\ CliIdle
    /\ MergeIdle
    /\ TreeIdle
    /\ PypiIdle
    /\ DcIdle
    /\ FrIdle
    /\ GdIdle
    /\ index \in IndexOptions
    /\ existing_pins \in ExistingPinSets
    /\ proxied_calls = 0
    /\ best_match_ireq = <<>>
    /\ best_match_result = <<>>
    /\ proxied_before = 0
    /\ local_ops = 0
    /\ pin_hashes \in PinHashChoices(existing_pins)
    /\ lh_call = <<>>
    /\ lh_result = <<>>
    /\ lh_ops = 0

\* LocalRequirementsRepository.get_hashes(ireq)
get_hashes(ireq) ==
    /\ lh_ops < MaxHashOps
    /\ lh_ops' = lh_ops + 1
    /\ lh_call' = ireq
    /\ lh_result' = local_get_hashes(existing_pins, pin_hashes, index, ireq)
    /\ UNCHANGED pin_hashes
    /\ UNCHANGED notLhVars

NextLocalHashes == \E ireq \in HashRequests : get_hashes(ireq)

SpecLocalHashes == InitLocalHashes /\ [][NextLocalHashes]_vars

(***************************************************************************)
(* Properties of get_hashes through the wrapper.                           *)
(***************************************************************************)
\* the existing pin of the requirement's key is reused for it: its pinned
\* version satisfies the requirement's specifier
PinReusedFor(ireq) ==
    /\ key_from_ireq(ireq) \in DOMAIN existing_pins
    /\ Contains(ireq.specifier, get_ireq_version(existing_pins[key_from_ireq(ireq)]))

\* C25: get_hashes of the wrapper returns the existing pin's own hashes when
\* that pin is reused and carries hashes, and for every other requirement
\* exactly what get_hashes of the wrapped repository returns for it: an
\* empty set for an editable requirement, its error for an unpinned one.
C25_GetHashesDelegates ==
    lh_ops > 0 =>
        IF /\ is_pinned_requirement(lh_call)
           /\ PinReusedFor(lh_call)
           /\ pin_hashes[key_from_ireq(lh_call)] # {}
        THEN lh_result = Hashes(pin_hashes[key_from_ireq(lh_call)])
        ELSE lh_result = pypi_get_hashes(index, lh_call)

(***************************************************************************)
(* More properties of PyPIRepository.                                      *)
(***************************************************************************)
\* C26: get_hashes on an unpinned requirement that is not editable raises
\* TypeError, before any candidate lookup.
C26_UnpinnedRaisesTypeError ==
    (LastCallIs("get_hashes") /\ ~pypi_call.ireq.editable /\ ~HasVersion(pypi_call.ireq)) =>
        /\ pypi_result.error = "TypeError"
        /\ finder_asked = {}
        /\ pypi_ops = 1 => finder_queries = <<>>

(***************************************************************************)
(* file_replacer.py: FileReplacer creates a temporary file next to the      *)
(* destination, hands it to the body of the context, and on exit either     *)
(* renames it over the destination or removes it.                           *)
(***************************************************************************)
NoFile == [exists |-> FALSE, content |-> <<>>, mode |-> "none"]

File(content, mode) == [exists |-> TRUE, content |-> content, mode |-> mode]

\* NamedTemporaryFile(delete=False) creates an empty file readable and
\* writable by its owner only
NamedTemporaryFile == File(<<>>, "600")

\* the permissions the temporary file gets before the rename: those of the
\* destination if it exists, else the default ones of the umask
copy_or_init_permissions(target_file, source_file) ==
    [target_file EXCEPT !.mode = IF source_file.exists THEN source_file.mode ELSE "644"]

\* the finally clause of close is skipped
finally_unlink_skipped(replaced, tmp) == tmp

\* the finally clause of close: the temporary path is unlinked unless the
\* rename took place
finally_unlink(replaced, tmp) == IF ~replaced THEN NoFile ELSE tmp

\* close(do_replace) on a FileReplacer whose self.tmpfile is set or not;
\* rename_ok is the outcome of os.rename in the file system
close(self_tmpfile, tmp, dest, do_replace, rename_ok) ==
    IF ~self_tmpfile
    THEN [tmpfile |-> FALSE, tmp |-> tmp, dest |-> dest, replaced |-> FALSE, raised |-> FALSE]
    ELSE LET replaced == do_replace /\ rename_ok
             renamed == copy_or_init_permissions(tmp, dest)
         IN  [tmpfile |-> FALSE,
              tmp |-> finally_unlink(replaced, IF replaced THEN NoFile ELSE tmp),
              dest |-> IF replaced THEN renamed ELSE dest,
              replaced |-> replaced,
              raised |-> do_replace /\ ~rename_ok]

\* every __exit__ is always told to replace
exit_do_replace_always(exc_type) == TRUE

\* __exit__ replaces the destination only when the body raised nothing
exit_do_replace(exc_type) == exc_type = "None"

MaxWrites == 2

MaxCloses == 2

Chunks == {"x", "y"}

DestFiles == {NoFile, File(<<"o">>, "644"), File(<<"o", "p">>, "600")}

ExcTypes == {"None", "ValueError"}

InitReplacer ==
    /\ DiffIdle
    /\ CacheIdle
    /\ RepoIdle
    /\ CliIdle
    /\ MergeIdle
    /\ TreeIdle
    /\ PypiIdle
    /\ DcIdle
    /\ LhIdle
    /\ GdIdle
    /\ fr_pc = "constructed"
    /\ fr_dest \in DestFiles
    /\ fr_dest_before = fr_dest
    /\ fr_tmp = NamedTemporaryFile
    /\ fr_tmpfile = TRUE
    /\ fr_exit = "none"
    /\ fr_after = [dest |-> NoFile, tmp |-> NoFile, written |-> <<>>]
    /\ fr_closes = 0

FileReplacer_enter ==
    /\ fr_pc = "constructed"
    /\ fr_pc' = "entered"
    /\ UNCHANGED <<fr_dest, fr_dest_before, fr_tmp, fr_tmpfile, fr_exit, fr_after, fr_closes>>
    /\ UNCHANGED notFrVars

\* the body of the context writes to the handle it was given
write(chunk) ==
    /\ fr_pc = "entered"
    /\ Len(fr_tmp.content) < MaxWrites
    /\ fr_tmp' = [fr_tmp EXCEPT !.content = Append(@, chunk)]
    /\ UNCHANGED <<fr_pc, fr_dest, fr_dest_before, fr_tmpfile, fr_exit, fr_after, fr_closes>>
    /\ UNCHANGED notFrVars

\* __exit__: the temporary file is closed, then close(do_replace) runs; when
\* closing the temporary file raises (its buffer cannot be written out),
\* __exit__ is left by that error before close(do_replace) is reached
FileReplacer_exit(exc_type, close_ok, rename_ok) ==
    /\ fr_pc = "entered"
    /\ \E c \in {IF close_ok
                 THEN close(fr_tmpfile, fr_tmp, fr_dest, exit_do_replace(exc_type), rename_ok)
                 ELSE [tmpfile |-> fr_tmpfile, tmp |-> fr_tmp, dest |-> fr_dest,
                       replaced |-> FALSE, raised |-> TRUE]} :
          /\ fr_tmpfile' = c.tmpfile
          /\ fr_tmp' = c.tmp
          /\ fr_dest' = c.dest
          /\ fr_after' = [dest |-> c.dest, tmp |-> c.tmp, written |-> fr_tmp.content]
          /\ fr_exit' = IF ~close_ok THEN "close failed"
                         ELSE IF exc_type # "None" THEN "exception"
                         ELSE IF c.raised THEN "rename failed"
                         ELSE "normal"
          /\ fr_pc' = IF c.raised \/ exc_type # "None" THEN "raised" ELSE "exited"
    /\ UNCHANGED <<fr_dest_before, fr_closes>>
    /\ UNCHANGED notFrVars

\* a close call after the context, from __del__ (do_replace false) or from
\* the caller
FileReplacer_close(do_replace, rename_ok) ==
    /\ fr_pc \in {"exited", "raised"}
    /\ fr_closes < MaxCloses
    /\ \E c \in {close(fr_tmpfile, fr_tmp, fr_dest, do_replace, rename_ok)} :
          /\ fr_tmpfile' = c.tmpfile
          /\ fr_tmp' = c.tmp
          /\ fr_dest' = c.dest
    /\ fr_closes' = fr_closes + 1
    /\ UNCHANGED <<fr_pc, fr_dest_before, fr_exit, fr_after>>
    /\ UNCHANGED notFrVars

NextReplacer ==
    \/ FileReplacer_enter
    \/ \E chunk \in Chunks : write(chunk)
    \/ \E exc_type \in ExcTypes, close_ok \in BOOLEAN, rename_ok \in BOOLEAN :
          FileReplacer_exit(exc_type, close_ok, rename_ok)
    \/ \E do_replace \in BOOLEAN, rename_ok \in BOOLEAN : FileReplacer_close(do_replace, rename_ok)

SpecReplacer == InitReplacer /\ [][NextReplacer]_vars

NoUrl == <<"None", <<>>, 0>>

DirectUrl(link) == <<"direct", <<link>>, 0>>

ReleaseUrl(ireq) == <<"index", key_from_ireq(ireq), get_ireq_version(ireq)>>

\* A lookup: the requirement, and whether pip has already populated the link
\* of this InstallRequirement object from the index (it does so when it
\* prepares the requirement; a requirement parsed afresh has no link).
Lookup(ireq, populated) == [ireq |-> ireq, populated |-> populated]

\* getattr(ireq.link, 'url', None)
link_url(lookup) ==
    IF lookup.ireq.link # "" THEN DirectUrl(lookup.ireq.link)
    ELSE IF lookup.populated THEN ReleaseUrl(lookup.ireq)
    ELSE NoUrl

\* ireq.link.url once the requirement is prepared
prepared_url(lookup) ==
    IF lookup.ireq.link # "" THEN DirectUrl(lookup.ireq.link) ELSE ReleaseUrl(lookup.ireq)

\* what the project behind a given link declares
DirectRequires(link) == IF link = "git+L" THEN {Req(n_b, {})} ELSE {}

\* the dependencies the prepared distribution of the url declares
resolve_one(idx, url) ==
    IF url[1] = "index" THEN idx[url[2]][url[3]] ELSE DirectRequires(url[2][1])

\* deps = self._dependencies_cache.get(url); if not deps: ...
served_from_memo(cache, url) == url \in DOMAIN cache /\ cache[url] # {}

\* self._dependencies_cache[ireq.link.url] = deps
memo_put(cache, url, deps) ==
    [u \in DOMAIN cache \cup {url} |-> IF u = url THEN deps ELSE cache[u]]

count_fetch(counts, url) ==
    [u \in DOMAIN counts \cup {url} |->
        IF u = url THEN (IF u \in DOMAIN counts THEN counts[u] ELSE 0) + 1
        ELSE counts[u]]

MaxGdOps == 3

GdIReqs ==
    {InstallRequirement(n_a, {<<"==", 1>>}, {}, FALSE, "", FALSE, TRUE),
     InstallRequirement(n_b, {<<"==", 1>>}, {}, FALSE, "", FALSE, TRUE),
     InstallRequirement(n_ZI, {<<"==", MaxVersion>>}, {"x"}, FALSE, "", FALSE, TRUE),
     InstallRequirement(n_b, {}, {}, TRUE, "git+L", FALSE, TRUE),
     InstallRequirement(n_c, {}, {}, TRUE, "file:L", FALSE, TRUE)}

GdLookups == {Lookup(ireq, populated) : ireq \in GdIReqs, populated \in BOOLEAN}

InitGd ==
    /\ DiffIdle
    /\ CacheIdle
    /\ CliIdle
    /\ MergeIdle
    /\ TreeIdle
    /\ PypiIdle
    /\ DcIdle
    /\ LhIdle
    /\ FrIdle
    /\ index \in IndexOptions
    /\ existing_pins = <<>>
    /\ proxied_calls = 0
    /\ best_match_ireq = <<>>
    /\ best_match_result = <<>>
    /\ proxied_before = 0
    /\ local_ops = 0
    /\ dependencies_cache = <<>>
    /\ fetch_count = <<>>
    /\ gd_call = <<>>
    /\ gd_result = {}
    /\ gd_ops = 0

\* PyPIRepository._get_dependencies(ireq)
PyPIRepository_get_dependencies(lookup) ==
    /\ gd_ops < MaxGdOps
    /\ gd_ops' = gd_ops + 1
    /\ gd_call' = lookup
    /\ IF served_from_memo(dependencies_cache, link_url(lookup))
       THEN /\ gd_result' = dependencies_cache[link_url(lookup)]
            /\ UNCHANGED <<dependencies_cache, fetch_count>>
       ELSE \E deps \in {resolve_one(index, prepared_url(lookup))} :
            /\ fetch_count' = count_fetch(fetch_count, prepared_url(lookup))
            /\ dependencies_cache' = memo_put(dependencies_cache, prepared_url(lookup), deps)
            /\ gd_result' = deps
    /\ UNCHANGED notGdVars

NextGd == \E lookup \in GdLookups : PyPIRepository_get_dependencies(lookup)

SpecGd == InitGd /\ [][NextGd]_vars

\* C30: over any sequence of dependency lookups on one repository no link is
\* fetched and prepared more than once, whether or not its package declares
\* dependencies.
C30_FetchedAtMostOnce ==
    \A url \in DOMAIN fetch_count : fetch_count[url] <= 1

====
